---- MODULE Spec2Model ----
(***************************************************************************)
(* The polygon annotation engine of offLIMMMA (PaintbrushMap): the vector  *)
(* source, the click-to-vertex and freehand drawing handlers, the          *)
(* same-class merge, the cross-class trim, the undo/redo history, and the  *)
(* document-level commands: class deletion, New and Open.                  *)
(*                                                                         *)
(* Geometry.  The map is a strip of unit cells 0, 1, 2, ... of height 1.   *)
(* Coordinates are lattice points <<x, y>> with y \in {0, 1}; one lattice  *)
(* step is stepPx screen pixels at the view's resolution.  A ring          *)
(* is a sequence of lattice points.  What JSTS computes on a geometry it   *)
(* computes here on the set of cells whose centre the geometry covers      *)
(* (even-odd rule); a geometry written back by JSTS is the list of the     *)
(* maximal runs of covered cells, one rectangle ring per run.              *)
(***************************************************************************)
EXTENDS Integers, Sequences, FiniteSets, TLC

\* ---------------------------------------------------------------- bounds
MaxX == 3          \* lattice columns 0..MaxX, so cells 0..MaxX-1
MaxClasses == 2    \* classes that can be added
MaxSaves == 2      \* saveState calls a session of Spec is followed for
DeepSaves == 3     \* saveState calls a session of SpecPoly is followed for
DocSaves == 2      \* saveState calls a session of SpecDoc is followed for
FaultSaves == 2    \* saveState calls a session of SpecFault is followed for
MaxPasses == 3     \* passes of the union loop that are followed
MaxMerge == 3      \* geometries handed to the union loop
SeqCommits == 60   \* draw-commits of the scripted session SpecSeq
LatticePx == 200   \* screen pixels per lattice step
FinePx == 8        \* screen pixels per lattice step when the view is zoomed out
ZoomSaves == 2     \* saveState calls a session of SpecZoom is followed for
UnionSaves == 2    \* saveState calls a session of SpecUnionFault is followed for
MaxMeasured == 2   \* features of the source in a measured snap
MaxStroke == 3     \* coordinates of a stroke of SpecStroke
MaxStray == 1      \* stroke lines left behind before a session of Spec ends

\* ------------------------------------------------------ program constants
maxHistorySize == 50
closePixels == 10
minDistancePixels == 3
snapInsidePixels == 35
snapOutsidePixels == 10

NoClass == 0
NoCoord == <<>>
NoDocument == 0

Lattice == (0..MaxX) \X {0, 1}

\* ------------------------------------------------------------- geometry

Polygon(ring) == [type |-> "Polygon", rings |-> <<ring>>]
EmptyPolygon == [type |-> "Polygon", rings |-> <<>>]
LineString(coords) == [type |-> "LineString", rings |-> <<coords>>]
Point(c) == [type |-> "Point", rings |-> <<(<<c>>)>>]

IsPolygon(g) == g.type = "Polygon"
IsAreal(g) == g.type \in {"Polygon", "MultiPolygon"}

\* An edge p-q crosses the horizontal line through the cell centres to the
\* right of the centre of cell c.
CrossesRightOf(p, q, c) == p[2] # q[2] /\ p[1] + q[1] > 2 * c + 1

RingXs(ring) == {ring[k][1] : k \in DOMAIN ring}

RingCells(ring) ==
  IF Len(ring) < 2 THEN {}
  ELSE LET xs == RingXs(ring)
           lo == CHOOSE x \in xs : \A y \in xs : x <= y
           hi == CHOOSE x \in xs : \A y \in xs : x >= y
       IN {c \in lo..(hi - 1) :
             Cardinality({k \in 1..(Len(ring) - 1) :
                            CrossesRightOf(ring[k], ring[k + 1], c)}) % 2 = 1}

GeomCells(g) ==
  IF IsAreal(g) THEN UNION {RingCells(g.rings[i]) : i \in DOMAIN g.rings} ELSE {}

\* jsts.io.GeoJSONReader.read: a LinearRing of 1..3 points is refused.
JstsReadThrows(g) == \E i \in DOMAIN g.rings : Len(g.rings[i]) \in 1..3

RectRing(lo, hi) ==
  << <<lo, 0>>, <<hi + 1, 0>>, <<hi + 1, 1>>, <<lo, 1>>, <<lo, 0>> >>

RunStarts(cells) == {c \in cells : (c - 1) \notin cells}
RunEnd(cells, lo) == CHOOSE h \in cells : h >= lo /\ (lo..h) \subseteq cells /\ (h + 1) \notin cells

RECURSIVE RunRings(_, _)
RunRings(cells, starts) ==
  IF starts = {} THEN <<>>
  ELSE LET lo == CHOOSE x \in starts : \A y \in starts : x <= y
       IN <<RectRing(lo, RunEnd(cells, lo))>> \o RunRings(cells, starts \ {lo})

\* jsts.io.GeoJSONWriter.write followed by ol/format/GeoJSON.readGeometry.
JstsWrite(cells) ==
  LET rings == RunRings(cells, RunStarts(cells))
  IN [type |-> IF Len(rings) > 1 THEN "MultiPolygon" ELSE "Polygon", rings |-> rings]

\* a.intersects(b) || a.touches(b): the closed regions share a point.
Intersects(a, b) == \E x \in a, y \in b : x - y \in {-1, 0, 1}

\* ---------------------------------------------------------------- state
VARIABLES
  store,               \* vectorSourceRef: the features, in insertion order
  history,             \* historyRef
  historyIndex,        \* historyIndexRef (0-based, -1 = before the first entry)
  pubCanUndo,          \* last (canUndo, canRedo) published to the parent
  pubCanRedo,
  classes,             \* the class list (ids, in order)
  activeTool,
  paintStyle,
  selectedClass,       \* id of the selected class, NoClass when none
  isPainting,          \* isPaintingRef
  strokeCoords,        \* currentStrokeCoordsRef
  strokeRef,           \* currentStrokeFeatureRef is set
  isDrawingPolygon,    \* isDrawingPolygonRef
  polygonCoords,       \* polygonCoordsRef
  polygonPointerCoord, \* polygonPointerCoordRef
  previewRef,          \* polygonPreviewFeatureRef is set
  snapRef,             \* snapIndicatorFeatureRef is set
  jstsLoaded,          \* window.jsts is present
  clock,               \* Date.now() at the last class creation (class ids)
  geoJsonData,         \* the App's geoJsonData state: the document to show
  geoJsonLoaded,       \* geoJsonLoadedRef
  loadPending,         \* the load effect's setTimeout(saveState, 100) is pending
  diffThrowsOn,        \* cells over which JSTS difference() throws
  unionThrowsOn,       \* cells over which JSTS union() throws
  retryThrowsOn,       \* cells over which the union of the buffered pair throws too
  geometries,          \* the working list of the union loop
  nPasses,             \* passes of the union loop so far (bounds the exploration)
  hung,                \* the UI thread is inside a handler that does not return
  stepPx,              \* screen pixels per lattice step (1 / the view's resolution)
  measured,            \* the source's features and the selected class at the last measured snap
  snappedTo,           \* the feature that snap chose (its position), or 0
  opacity,             \* the App's opacity state
  classColor,          \* the colour of each class id, as handleUpdateClass last set it
  readThrowsOn,        \* readFeature throws on an item whose geometry covers one of these cells
  isRestoringState,    \* isRestoringStateRef
  pending,             \* the items restoreState's forEach has not come to yet
  nSaves,              \* saveState calls so far (bounds the exploration)
  lastCommit,          \* the draw-commit made by the last step, NoCommit otherwise
  discarded,           \* the last step was a commit attempt with fewer than 3 points
  lastKey,             \* the key that acted on a drawing in the last step, or "none"
  lastDrag,            \* the stroke and the drag coordinate the last step was handed, or NoDrag
  saveIgnored,         \* the last step was a saveState call that found a restore in progress
  lastLook,            \* the prop whose change fell into a polygon drawing in the last step, or "none"
  nUndos               \* scripted run: undo() calls so far

vars == <<store, history, historyIndex, pubCanUndo, pubCanRedo, classes, activeTool,
          paintStyle, selectedClass, isPainting, strokeCoords, strokeRef,
          isDrawingPolygon, polygonCoords, polygonPointerCoord, previewRef, snapRef,
          jstsLoaded, clock, geoJsonData, geoJsonLoaded, loadPending, diffThrowsOn,
          unionThrowsOn, retryThrowsOn, geometries, nPasses, hung, stepPx, measured,
          snappedTo, opacity, classColor, readThrowsOn, isRestoringState, pending, nSaves,
          nUndos>>

\* --------------------------------------------------------- pixel distances
\* Squared pixel distance from p to the segment a-b is below tolPx^2.
SegmentWithin(p, a, b, tolPx) ==
  LET dx == b[1] - a[1]
      dy == b[2] - a[2]
      l2 == dx * dx + dy * dy
      t == (p[1] - a[1]) * dx + (p[2] - a[2]) * dy
      da == (p[1] - a[1]) * (p[1] - a[1]) + (p[2] - a[2]) * (p[2] - a[2])
      db == (p[1] - b[1]) * (p[1] - b[1]) + (p[2] - b[2]) * (p[2] - b[2])
      cr == (p[1] - a[1]) * dy - (p[2] - a[2]) * dx
      g2 == stepPx * stepPx
  IN IF l2 = 0 \/ t <= 0 THEN da * g2 < tolPx * tolPx
     ELSE IF t >= l2 THEN db * g2 < tolPx * tolPx
     ELSE cr * cr * g2 < tolPx * tolPx * l2

PixelDistSq(p, q) ==
  stepPx * stepPx * ((p[1] - q[1]) * (p[1] - q[1]) + (p[2] - q[2]) * (p[2] - q[2]))

\* A feature: its geometry, its classId property, its __transient property and
\* which of the component's refs (if any) points to this object.
Feature(g, c, tr, r) == [geom |-> g, classId |-> c, transient |-> tr, ref |-> r]

WithoutRef(s, r) == SelectSeq(s, LAMBDA f : f.ref # r)
Untag(s, r) == [i \in DOMAIN s |-> IF s[i].ref = r THEN [s[i] EXCEPT !.ref = "none"] ELSE s[i]]
SetGeom(s, r, g) == [i \in DOMAIN s |-> IF s[i].ref = r THEN [s[i] EXCEPT !.geom = g] ELSE s[i]]
RemoveAt(s, idxs) ==
  LET F[i \in 0..Len(s)] ==
        IF i = 0 THEN <<>>
        ELSE IF i \in idxs THEN F[i - 1] ELSE Append(F[i - 1], s[i])
  IN F[Len(s)]

\* ---------------------------------------------------------------- history
\* The serialized form of the non-transient features (saveState's map step).
Serialize(s) ==
  LET kept == SelectSeq(s, LAMBDA f : ~f.transient)
  IN [i \in DOMAIN kept |-> [geom |-> kept[i].geom, classId |-> kept[i].classId]]

\* restoreState's readFeature step: fresh feature objects.
Deserialize(state) ==
  [i \in DOMAIN state |-> Feature(state[i].geom, state[i].classId, FALSE, "none")]

canUndoOf(h, i) == i >= 0 \/ Len(h) > 0
canRedoOf(h, i) == i < Len(h) - 1

\* A saveState that never evicts: C14 must not survive it.
saveStateUnbounded(h, i, s) ==
  LET cut == IF i < Len(h) - 1 THEN SubSeq(h, 1, i + 1) ELSE h
      pushed == Append(cut, Serialize(s))
  IN [h |-> pushed, i |-> Len(pushed) - 1]

\* A saveState that keeps the redo branch: C15 must not survive it.
saveStateKeepingRedo(h, i, s) ==
  LET pushed == Append(h, Serialize(s))
  IN IF Len(pushed) > maxHistorySize
     THEN [h |-> Tail(pushed), i |-> i]
     ELSE [h |-> pushed, i |-> Len(pushed) - 1]

\* A saveState that moves the index before it evicts: C23 must not survive it.
saveStateIndexFirst(h, i, s) ==
  LET cut == IF i < Len(h) - 1 THEN SubSeq(h, 1, i + 1) ELSE h
      pushed == Append(cut, Serialize(s))
  IN IF Len(pushed) > maxHistorySize
     THEN [h |-> Tail(pushed), i |-> Len(pushed) - 1]
     ELSE [h |-> pushed, i |-> Len(pushed) - 1]

\* saveState on history h at index i with store s: the new history and index.
saveStateResult(h, i, s) ==
  LET cut == IF i < Len(h) - 1 THEN SubSeq(h, 1, i + 1) ELSE h
      pushed == Append(cut, Serialize(s))
  IN IF Len(pushed) > maxHistorySize
     THEN [h |-> Tail(pushed), i |-> i]
     ELSE [h |-> pushed, i |-> Len(pushed) - 1]

\* A saveState without the isRestoringStateRef guard: C40 must not survive it.
saveStateUnguarded(s) ==
  LET r == saveStateResult(history, historyIndex, s)
  IN /\ history' = r.h
     /\ historyIndex' = r.i
     /\ pubCanUndo' = canUndoOf(r.h, r.i)
     /\ pubCanRedo' = canRedoOf(r.h, r.i)
     /\ nSaves' = nSaves + 1

\* The action part of saveState, for a handler that has computed the store s.
\* It returns at once while a restore is in progress.
saveState(s) ==
  LET r == saveStateResult(history, historyIndex, s)
  IN IF isRestoringState
     THEN UNCHANGED <<history, historyIndex, pubCanUndo, pubCanRedo, nSaves>>
     ELSE /\ history' = r.h
          /\ historyIndex' = r.i
          /\ pubCanUndo' = canUndoOf(r.h, r.i)
          /\ pubCanRedo' = canRedoOf(r.h, r.i)
          /\ nSaves' = nSaves + 1

\* A restoreState that does not clear the source first: C24 must not survive it.
restoreWithoutClear(state) == store \o Deserialize(state)

\* geoJsonFormat.readFeature(item.geoJson) throws.
readFeatureThrows(item) == GeomCells(item.geom) \cap readThrowsOn # {}

\* The items of a history entry that restoreState does not skip.
wellFormed(state) == SelectSeq(state, LAMBDA item : ~readFeatureThrows(item))

restoreState(state) == Deserialize(wellFormed(state))

exportGeoJSON(s) ==
  LET features == SelectSeq(s, LAMBDA f : ~f.transient)
  IN IF Len(features) = 0 THEN <<>>
     ELSE [i \in DOMAIN features |-> [geom |-> features[i].geom, classId |-> features[i].classId]]

\* ------------------------------------------------------------------ merge
NoMerge == [remove |-> {}, add |-> <<>>, returns |-> TRUE]

\* The merge is caught in its union loop: nothing is removed or returned.
NoReturn == [remove |-> {}, add |-> <<>>, returns |-> FALSE]

\* geometries[i].union(geometries[i + 1]) throws (a TopologyException of JSTS).
unionThrows(a, b) == (a \cup b) \cap unionThrowsOn # {}

\* buffered1.union(buffered2), the second attempt, throws as well.
retryThrows(a, b) == (a \cup b) \cap retryThrowsOn # {}

\* One pass of the cascaded union over gs, from position k on: each pair is
\* replaced by its union, or kept as it is when both attempts throw; an odd
\* geometry at the end is kept.
RECURSIVE unionPairs(_, _)
unionPairs(gs, k) ==
  IF k > Len(gs) THEN <<>>
  ELSE IF k = Len(gs) THEN <<gs[k]>>
  ELSE (IF unionThrows(gs[k], gs[k + 1]) /\ retryThrows(gs[k], gs[k + 1])
        THEN <<gs[k], gs[k + 1]>>
        ELSE <<gs[k] \cup gs[k + 1]>>) \o unionPairs(gs, k + 2)

unionPass(gs) == unionPairs(gs, 1)

\* The while loop of the cascaded union.  A pass is a function of the list
\* alone, so a pass that returns the list it was given is repeated for ever.
RECURSIVE cascadedUnion(_)
cascadedUnion(gs) ==
  IF Len(gs) <= 1 THEN [returns |-> TRUE, cells |-> gs[1]]
  ELSE IF unionPass(gs) = gs THEN [returns |-> FALSE, cells |-> {}]
  ELSE cascadedUnion(unionPass(gs))

\* geometriesToMerge: the new geometry, then the touched ones in store order.
geometriesToMerge(s, newCells, touched) ==
  LET F[i \in 0..Len(s)] ==
        IF i = 0 THEN <<newCells>>
        ELSE IF i \in touched THEN Append(F[i - 1], GeomCells(s[i].geom))
        ELSE F[i - 1]
  IN F[Len(s)]

\* A merge that forgets the class filter: C7 must not survive it.
AnyClassPolygons(s, classId) == {i \in DOMAIN s : IsPolygon(s[i].geom)}

\* The existing features mergeOverlappingPolygons considers.
SameClassPolygons(s, classId) ==
  {i \in DOMAIN s : s[i].classId = classId /\ IsPolygon(s[i].geom)}

\* A merge that does not look whether JSTS is there: C19 must not survive it.
mergeAssumingJsts(s, newPolygon, classId) ==
  LET existing == SameClassPolygons(s, classId)
      newCells == GeomCells(newPolygon)
      touched == {i \in existing : Intersects(newCells, GeomCells(s[i].geom))}
      merged == newCells \cup UNION {GeomCells(s[i].geom) : i \in touched}
  IN IF touched = {} THEN NoMerge
     ELSE [remove |-> touched,
           add |-> <<Feature(JstsWrite(merged), classId, FALSE, "none")>>,
           returns |-> TRUE]

\* mergeOverlappingPolygons: the indices of the features it removes from the
\* source and the features it returns (none, or the single merged feature).
mergeOverlappingPolygons(s, newPolygon, classId) ==
  IF ~jstsLoaded THEN NoMerge
  ELSE LET existing == SameClassPolygons(s, classId)
           newCells == GeomCells(newPolygon)
           touched == {i \in existing : Intersects(newCells, GeomCells(s[i].geom))}
           merged == cascadedUnion(geometriesToMerge(s, newCells, touched))
       IN IF existing = {} THEN NoMerge
          ELSE IF JstsReadThrows(newPolygon)
                  \/ \E i \in existing : JstsReadThrows(s[i].geom) THEN NoMerge
          ELSE IF touched = {} THEN NoMerge
          ELSE IF ~merged.returns THEN NoReturn
          ELSE [remove |-> touched,
                add |-> <<Feature(JstsWrite(merged.cells), classId, FALSE, "none")>>,
                returns |-> TRUE]

\* The caller's part: add the merged feature, or the polygon as its own feature.
addCommitted(s, polygon, classId) ==
  LET m == mergeOverlappingPolygons(s, polygon, classId)
  IN IF Len(m.add) > 0 THEN RemoveAt(s, m.remove) \o m.add
     ELSE Append(s, Feature(polygon, classId, FALSE, "none"))

closeRing(coords) ==
  IF coords[1] = coords[Len(coords)] THEN coords ELSE Append(coords, coords[1])

\* ------------------------------------------------------------------- trim
\* The other-class polygons commitPolygon subtracts.
OtherClassPolygons(s, classId) ==
  {i \in DOMAIN s : /\ ~s[i].transient
                    /\ s[i].classId # NoClass
                    /\ s[i].classId # classId
                    /\ IsPolygon(s[i].geom)}

\* newJstsGeom.difference(otherJsts) throws (a TopologyException of JSTS).
differenceThrows(other) == other \cap diffThrowsOn # {}

\* One pass of the trim loop: subtract a polygon that intersects or touches;
\* a difference that throws is caught and the geometry kept.
trimStep(cells, other) ==
  IF ~Intersects(cells, other) THEN cells
  ELSE IF differenceThrows(other) THEN cells
  ELSE cells \ other

trimLoop(s, others, newCells) ==
  LET F[i \in 0..Len(s)] ==
        IF i = 0 THEN newCells
        ELSE IF i \in others THEN trimStep(F[i - 1], GeomCells(s[i].geom))
        ELSE F[i - 1]
  IN F[Len(s)]

\* commitPolygon's boolean-ops block: the polygon that is handed to the merge.
trimPolygon(s, polygon, classId) ==
  LET others == OtherClassPolygons(s, classId)
  IN IF ~jstsLoaded THEN polygon
     ELSE IF JstsReadThrows(polygon) \/ \E i \in others : JstsReadThrows(s[i].geom)
     THEN polygon
     ELSE JstsWrite(trimLoop(s, others, GeomCells(polygon)))

\* --------------------------------------------------------- snap and preview
\* A setSnapIndicator that ignores the null coordinate: C31 must not survive it.
setSnapIndicatorNeverHiding(s, ref, coord) ==
  IF coord = NoCoord THEN s
  ELSE IF ~ref THEN Append(s, Feature(Point(coord), NoClass, TRUE, "snap"))
  ELSE SetGeom(s, "snap", Point(coord))

setSnapIndicator(s, ref, coord) ==
  IF coord = NoCoord THEN WithoutRef(s, "snap")
  ELSE IF ~ref THEN Append(s, Feature(Point(coord), NoClass, TRUE, "snap"))
  ELSE SetGeom(s, "snap", Point(coord))

SnapCandidates(s, classId) ==
  {i \in DOMAIN s : /\ s[i].classId # NoClass
                    /\ s[i].classId # classId
                    /\ IsPolygon(s[i].geom)}

\* geometry.intersectsCoordinate(coordinate)
intersectsCoordinate(g, p) == \E c \in GeomCells(g) : p[1] \in {c, c + 1}

snapTolerancePixels(s, classId, p) ==
  IF \E i \in SnapCandidates(s, classId) : intersectsCoordinate(s[i].geom, p)
  THEN snapInsidePixels ELSE snapOutsidePixels

RingWithin(ring, p, tolPx) ==
  \E k \in 1..(Len(ring) - 1) : SegmentWithin(p, ring[k], ring[k + 1], tolPx)

\* snapToBoundary: the store and the snap ref after its setSnapIndicator call.
\* At LatticePx pixels per step a boundary within the tolerance passes through
\* the point, so the returned coordinate is the coordinate itself; at FinePx
\* pixels per step only sessions without a candidate are followed.
snapToBoundary(s, ref, classId, p) ==
  LET cand == SnapCandidates(s, classId)
      tol == snapTolerancePixels(s, classId, p)
      near == \E i \in cand : /\ Len(s[i].geom.rings) > 0
                              /\ RingWithin(s[i].geom.rings[1], p, tol)
  IN IF cand = {} THEN [store |-> s, ref |-> ref]
     ELSE IF near THEN [store |-> setSnapIndicator(s, ref, p), ref |-> TRUE]
     ELSE [store |-> setSnapIndicator(s, ref, NoCoord), ref |-> FALSE]

\* isCloseToFirstVertex answering yes only on the first vertex itself: C26 must
\* not survive it.
isCloseOnlyOnTheVertex(coords, p) ==
  IF Len(coords) < 3 THEN FALSE
  ELSE PixelDistSq(coords[1], p) = 0

isCloseToFirstVertex(coords, p) ==
  IF Len(coords) < 3 THEN FALSE
  ELSE PixelDistSq(coords[1], p) <= closePixels * closePixels

\* updatePreview: the store after it (the preview ref is set iff coords is non-empty
\* or it was set before).
updatePreview(s, ref, coords, pointer, drawing, classId) ==
  LET lineCoords == IF pointer # NoCoord /\ drawing THEN Append(coords, pointer) ELSE coords
  IN IF Len(coords) = 0 THEN s
     ELSE IF ~ref THEN Append(s, Feature(LineString(lineCoords), classId, FALSE, "preview"))
     ELSE SetGeom(s, "preview", LineString(lineCoords))

\* ------------------------------------------------------- drawing context
\* The refs the paint effect's closures and its cleanup work on.
Ctx ==
  [store |-> store, isPainting |-> isPainting, strokeCoords |-> strokeCoords,
   strokeRef |-> strokeRef, isDrawingPolygon |-> isDrawingPolygon,
   polygonCoords |-> polygonCoords, polygonPointerCoord |-> polygonPointerCoord,
   previewRef |-> previewRef, snapRef |-> snapRef]

SetCtx(c) ==
  /\ store' = c.store
  /\ isPainting' = c.isPainting
  /\ strokeCoords' = c.strokeCoords
  /\ strokeRef' = c.strokeRef
  /\ isDrawingPolygon' = c.isDrawingPolygon
  /\ polygonCoords' = c.polygonCoords
  /\ polygonPointerCoord' = c.polygonPointerCoord
  /\ previewRef' = c.previewRef
  /\ snapRef' = c.snapRef

\* A cancelPolygon that leaves the preview feature in the source: C27 must not
\* survive it.
cancelKeepingPreview(c) ==
  [c EXCEPT !.isDrawingPolygon = FALSE,
            !.polygonCoords = <<>>,
            !.polygonPointerCoord = NoCoord,
            !.store = setSnapIndicator(c.store, c.snapRef, NoCoord),
            !.previewRef = FALSE,
            !.snapRef = FALSE]

cancelPolygon(c) ==
  [c EXCEPT !.isDrawingPolygon = FALSE,
            !.polygonCoords = <<>>,
            !.polygonPointerCoord = NoCoord,
            !.store = setSnapIndicator(WithoutRef(c.store, "preview"), c.snapRef, NoCoord),
            !.previewRef = FALSE,
            !.snapRef = FALSE]

\* The cleanup returned by the freehand branch of the paint effect.
freehandCleanup(c) ==
  [c EXCEPT !.isPainting = FALSE,
            !.store = Untag(c.store, "stroke"),
            !.strokeRef = FALSE,
            !.strokeCoords = <<>>]

\* The branch of the paint effect taken when the tool is not Paint or no class
\* is selected.
paintAbort(c) ==
  [c EXCEPT !.isPainting = FALSE,
            !.store = WithoutRef(WithoutRef(c.store, "stroke"), "preview"),
            !.strokeRef = FALSE,
            !.strokeCoords = IF c.strokeRef THEN <<>> ELSE c.strokeCoords,
            !.isDrawingPolygon = FALSE,
            !.polygonCoords = <<>>,
            !.previewRef = FALSE]

PaintInstalled(tool, cls) == tool = "paint" /\ cls # NoClass

\* The cleanup of the run of the paint effect installed with oldTool, oldStyle
\* and oldCls.
paintCleanup(c, oldTool, oldStyle, oldCls) ==
  IF ~PaintInstalled(oldTool, oldCls) THEN c
  ELSE IF oldStyle = "polygon" THEN cancelPolygon(c)
  ELSE freehandCleanup(c)

\* The body of the paint effect under the new props.
paintBody(c, newTool, newCls) ==
  IF PaintInstalled(newTool, newCls) THEN c ELSE paintAbort(c)

\* A re-run of the paint effect: the cleanup of the previous run, then the body.
rerunPaintEffect(c, oldTool, oldStyle, oldCls, newTool, newCls) ==
  paintBody(paintCleanup(c, oldTool, oldStyle, oldCls), newTool, newCls)

NoCommit == [ring |-> <<>>, classId |-> NoClass, mode |-> "none", via |-> "none"]

\* The step made no draw-commit, and its handler returned.
NoDrag == [coords |-> <<>>, p |-> NoCoord]

NotACommit ==
  /\ lastCommit' = NoCommit
  /\ discarded' = FALSE
  /\ lastKey' = "none"
  /\ lastDrag' = NoDrag
  /\ saveIgnored' = FALSE
  /\ lastLook' = "none"
  /\ UNCHANGED hung

\* The bookkeeping of a change of the prop `look` (opacity, color, style,
\* class).
LookChanged(look) ==
  /\ lastCommit' = NoCommit
  /\ discarded' = FALSE
  /\ lastKey' = "none"
  /\ lastDrag' = NoDrag
  /\ saveIgnored' = FALSE
  /\ lastLook' = (IF isDrawingPolygon THEN look ELSE "none")
  /\ UNCHANGED hung

\* The bookkeeping of a drag of a stroke in progress to p.
Dragged(p) ==
  /\ lastCommit' = NoCommit
  /\ discarded' = FALSE
  /\ lastKey' = "none"
  /\ lastDrag' = [coords |-> strokeCoords, p |-> p]
  /\ saveIgnored' = FALSE
  /\ lastLook' = "none"
  /\ UNCHANGED hung

\* The step was a commit attempt that returned for want of 3 points.
Discarded ==
  /\ lastCommit' = NoCommit
  /\ discarded' = TRUE
  /\ lastKey' = "none"
  /\ lastDrag' = NoDrag
  /\ saveIgnored' = FALSE
  /\ lastLook' = "none"
  /\ UNCHANGED hung

\* The bookkeeping of a key that edits the drawing in progress, if there is one.
KeyHandled(key) ==
  /\ lastCommit' = NoCommit
  /\ discarded' = FALSE
  /\ lastKey' = (IF isDrawingPolygon THEN key ELSE "none")
  /\ lastDrag' = NoDrag
  /\ saveIgnored' = FALSE
  /\ lastLook' = "none"
  /\ UNCHANGED hung

UnchangedHistory == UNCHANGED <<history, historyIndex, pubCanUndo, pubCanRedo, nSaves>>

UnchangedDocument == UNCHANGED <<geoJsonData, geoJsonLoaded, loadPending, diffThrowsOn>>

\* The page's JSTS, the view's resolution and the union loop's working list
\* are left alone.
UnchangedEnv ==
  UNCHANGED <<unionThrowsOn, retryThrowsOn, geometries, nPasses, stepPx, measured, snappedTo,
              opacity, classColor, readThrowsOn, isRestoringState, pending>>

UnchangedProps ==
  /\ UNCHANGED <<classes, activeTool, paintStyle, selectedClass, jstsLoaded, clock>>
  /\ UnchangedDocument
  /\ UnchangedEnv

\* The bookkeeping of a draw-commit of `ring`, made by the handler `via`.
Committed(ring, mode, via) ==
  /\ lastCommit' = [ring |-> ring, classId |-> selectedClass, mode |-> mode, via |-> via]
  /\ discarded' = FALSE
  /\ lastKey' = "none"
  /\ lastDrag' = NoDrag
  /\ saveIgnored' = FALSE
  /\ lastLook' = "none"
  /\ UNCHANGED hung

\* ------------------------------------------------- click-to-vertex handlers
PolygonMode == PaintInstalled(activeTool, selectedClass) /\ paintStyle = "polygon"

\* commitPolygon called with the store as s returns: it has fewer than 3
\* vertices, or its merge comes out of the union loop.
commitReturns(s) ==
  \/ Len(polygonCoords) < 3
  \/ mergeOverlappingPolygons(WithoutRef(s, "preview"),
                              trimPolygon(s, Polygon(closeRing(polygonCoords)), selectedClass),
                              selectedClass).returns

\* commitPolygon, called by the handler `via` with the store as s.
commitPolygon(s, via) ==
  IF Len(polygonCoords) < 3
  THEN /\ store' = s
       /\ UNCHANGED <<isPainting, strokeCoords, strokeRef, isDrawingPolygon, polygonCoords,
                      polygonPointerCoord, previewRef>>
       /\ UnchangedHistory
       /\ Discarded
  ELSE LET closedCoords == closeRing(polygonCoords)
           polygon == trimPolygon(s, Polygon(closedCoords), selectedClass)
           added == addCommitted(WithoutRef(s, "preview"), polygon, selectedClass)
           final == setSnapIndicator(added, TRUE, NoCoord)
       IN IF ~commitReturns(s)
          THEN /\ store' = WithoutRef(s, "preview")
               /\ previewRef' = FALSE
               /\ hung' = TRUE
               /\ lastCommit' = NoCommit
               /\ discarded' = FALSE
               /\ lastKey' = "none"
               /\ lastDrag' = NoDrag
               /\ saveIgnored' = FALSE
               /\ lastLook' = "none"
               /\ UNCHANGED <<isPainting, strokeCoords, strokeRef, isDrawingPolygon,
                              polygonCoords, polygonPointerCoord>>
               /\ UnchangedHistory
          ELSE /\ store' = final
               /\ isDrawingPolygon' = FALSE
               /\ polygonCoords' = <<>>
               /\ polygonPointerCoord' = NoCoord
               /\ previewRef' = FALSE
               /\ UNCHANGED <<isPainting, strokeCoords, strokeRef>>
               /\ saveState(final)
               /\ Committed(closedCoords, "polygon", via)

handleClick(p) ==
  /\ PolygonMode
  /\ LET sn == snapToBoundary(store, snapRef, selectedClass, p)
         closing == isDrawingPolygon /\ isCloseToFirstVertex(polygonCoords, p)
         coords == Append(polygonCoords, p)
         shown == updatePreview(sn.store, previewRef, coords, p, TRUE, selectedClass)
     IN /\ IF closing
           THEN commitPolygon(sn.store, "click")
           ELSE /\ isDrawingPolygon' = TRUE
                /\ polygonCoords' = coords
                /\ polygonPointerCoord' = p
                /\ previewRef' = TRUE
                /\ store' = setSnapIndicator(shown, sn.ref, NoCoord)
                /\ UNCHANGED <<isPainting, strokeCoords, strokeRef>>
                /\ UnchangedHistory
                /\ NotACommit
        /\ snapRef' = (IF closing /\ ~commitReturns(sn.store) THEN sn.ref ELSE FALSE)
  /\ UnchangedProps
  /\ UNCHANGED nUndos

handlePolygonPointerMove(p) ==
  /\ PolygonMode
  /\ isDrawingPolygon
  /\ LET sn == snapToBoundary(store, snapRef, selectedClass, p)
     IN /\ store' = updatePreview(sn.store, previewRef, polygonCoords, p, TRUE, selectedClass)
        /\ snapRef' = sn.ref
  /\ polygonPointerCoord' = p
  /\ previewRef' = (previewRef \/ Len(polygonCoords) > 0)
  /\ UNCHANGED <<isPainting, strokeCoords, strokeRef, isDrawingPolygon, polygonCoords,
                 nUndos>>
  /\ UnchangedHistory
  /\ NotACommit
  /\ UnchangedProps

handleDblClick ==
  /\ PolygonMode
  /\ isDrawingPolygon
  /\ commitPolygon(store, "dblclick")
  /\ snapRef' = (IF Len(polygonCoords) < 3 \/ ~commitReturns(store) THEN snapRef ELSE FALSE)
  /\ UnchangedProps
  /\ UNCHANGED nUndos

\* An Enter that cancels a polygon of fewer than 3 vertices: C25 as amended
\* must not survive it.
handleKeyDownEnterDropping ==
  /\ PolygonMode
  /\ isDrawingPolygon
  /\ IF Len(polygonCoords) < 3
     THEN /\ SetCtx(cancelPolygon(Ctx))
          /\ UnchangedHistory
          /\ Discarded
     ELSE /\ commitPolygon(store, "enter")
          /\ snapRef' = (IF ~commitReturns(store) THEN snapRef ELSE FALSE)
  /\ UnchangedProps
  /\ UNCHANGED nUndos

handleKeyDownEnter ==
  /\ PolygonMode
  /\ isDrawingPolygon
  /\ commitPolygon(store, "enter")
  /\ snapRef' = (IF Len(polygonCoords) < 3 \/ ~commitReturns(store) THEN snapRef ELSE FALSE)
  /\ UnchangedProps
  /\ UNCHANGED nUndos

handleKeyDownEscape ==
  /\ PolygonMode
  /\ SetCtx(cancelPolygon(Ctx))
  /\ UNCHANGED nUndos
  /\ UnchangedHistory
  /\ KeyHandled("Escape")
  /\ UnchangedProps

\* A Backspace that removes the first vertex instead of the last: C28 must not
\* survive it.
handleKeyDownBackspaceFirst ==
  /\ PolygonMode
  /\ LET coords == SubSeq(polygonCoords, 2, Len(polygonCoords))
         c == [Ctx EXCEPT !.polygonCoords = coords]
     IN IF ~isDrawingPolygon
        THEN SetCtx(Ctx)
        ELSE IF Len(coords) = 0
        THEN SetCtx(cancelPolygon(c))
        ELSE SetCtx([c EXCEPT !.polygonPointerCoord = coords[Len(coords)],
                              !.store = updatePreview(store, previewRef, coords,
                                                      coords[Len(coords)], TRUE, selectedClass),
                              !.previewRef = TRUE])
  /\ UNCHANGED nUndos
  /\ UnchangedHistory
  /\ KeyHandled("Backspace")
  /\ UnchangedProps

handleKeyDownBackspace ==
  /\ PolygonMode
  /\ LET coords == SubSeq(polygonCoords, 1, Len(polygonCoords) - 1)
         c == [Ctx EXCEPT !.polygonCoords = coords]
     IN IF ~isDrawingPolygon
        THEN SetCtx(Ctx)
        ELSE IF Len(coords) = 0
        THEN SetCtx(cancelPolygon(c))
        ELSE SetCtx([c EXCEPT !.polygonPointerCoord = coords[Len(coords)],
                              !.store = updatePreview(store, previewRef, coords,
                                                      coords[Len(coords)], TRUE, selectedClass),
                              !.previewRef = TRUE])
  /\ UNCHANGED nUndos
  /\ UnchangedHistory
  /\ KeyHandled("Backspace")
  /\ UnchangedProps

\* -------------------------------------------------------- freehand handlers
FreehandMode == PaintInstalled(activeTool, selectedClass) /\ paintStyle = "freehand"

\* A threshold test that also drops a coordinate at the minimum distance: C32
\* as amended must not survive it.
tooCloseAtTheMinimum(coords, p) ==
  /\ Len(coords) > 0
  /\ PixelDistSq(coords[Len(coords)], p) <= minDistancePixels * minDistancePixels

\* The threshold test of updateStroke: the coordinate is dropped.
tooClose(coords, p) ==
  /\ Len(coords) > 0
  /\ PixelDistSq(coords[Len(coords)], p) < minDistancePixels * minDistancePixels

updateStroke(c, p) ==
  IF tooClose(c.strokeCoords, p) THEN c
  ELSE LET coords == Append(c.strokeCoords, p)
       IN [c EXCEPT !.strokeCoords = coords,
                    !.strokeRef = TRUE,
                    !.store = IF ~c.strokeRef
                              THEN Append(c.store, Feature(LineString(<<p>>), selectedClass,
                                                           FALSE, "stroke"))
                              ELSE SetGeom(c.store, "stroke", LineString(coords))]

handlePointerDown(p) ==
  /\ FreehandMode
  /\ SetCtx(updateStroke([Ctx EXCEPT !.isPainting = TRUE,
                                     !.strokeCoords = <<>>,
                                     !.strokeRef = FALSE,
                                     !.store = Untag(store, "stroke")], p))
  /\ UNCHANGED nUndos
  /\ UnchangedHistory
  /\ NotACommit
  /\ UnchangedProps

handlePointerMove(p) ==
  /\ FreehandMode
  /\ isPainting
  /\ SetCtx(updateStroke(Ctx, p))
  /\ UNCHANGED nUndos
  /\ UnchangedHistory
  /\ Dragged(p)
  /\ UnchangedProps

handlePointerUp ==
  /\ FreehandMode
  /\ isPainting' = FALSE
  /\ IF strokeRef /\ Len(strokeCoords) >= 3
     THEN LET closedCoords == closeRing(strokeCoords)
              removed == WithoutRef(store, "stroke")
              final == addCommitted(removed, Polygon(closedCoords), selectedClass)
          IN IF ~mergeOverlappingPolygons(removed, Polygon(closedCoords),
                                          selectedClass).returns
             THEN /\ store' = removed
                  /\ hung' = TRUE
                  /\ lastCommit' = NoCommit
                  /\ discarded' = FALSE
                  /\ lastKey' = "none"
                  /\ lastDrag' = NoDrag
                  /\ saveIgnored' = FALSE
                  /\ lastLook' = "none"
                  /\ UNCHANGED <<strokeRef, strokeCoords>>
                  /\ UnchangedHistory
             ELSE /\ store' = final
                  /\ strokeRef' = FALSE
                  /\ strokeCoords' = <<>>
                  /\ saveState(final)
                  /\ Committed(closedCoords, "freehand", "pointerup")
     ELSE /\ store' = WithoutRef(store, "stroke")
          /\ strokeRef' = FALSE
          /\ strokeCoords' = <<>>
          /\ UnchangedHistory
          /\ IF isPainting /\ Len(strokeCoords) < 3 THEN Discarded ELSE NotACommit
  /\ UNCHANGED <<isDrawingPolygon, polygonCoords, polygonPointerCoord, previewRef, snapRef,
                 nUndos>>
  /\ UnchangedProps

\* ------------------------------------------------------------------- erase
ClassIndex(c) ==
  IF \E k \in DOMAIN classes : classes[k] = c
  THEN CHOOSE k \in DOMAIN classes : classes[k] = c ELSE 0

\* A hit test that reports every feature of the source: C13 must not survive it.
AllFeatures(s, c) == DOMAIN s

\* getFeaturesAtPixel at the centre of cell c, transient features filtered out.
HitFeatures(s, c) == {i \in DOMAIN s : ~s[i].transient /\ c \in GeomCells(s[i].geom)}

\* The features that can come first: those of the class drawn on top.
TopHits(s, c) ==
  {i \in HitFeatures(s, c) :
     \A j \in HitFeatures(s, c) : ClassIndex(s[i].classId) <= ClassIndex(s[j].classId)}

handleEraseClick(c) ==
  /\ activeTool = "erase"
  /\ IF HitFeatures(store, c) = {}
     THEN /\ UNCHANGED store
          /\ UnchangedHistory
     ELSE \E i \in TopHits(store, c) :
            LET final == RemoveAt(store, {i})
            IN /\ store' = final
               /\ saveState(final)
  /\ UNCHANGED <<isPainting, strokeCoords, strokeRef, isDrawingPolygon, polygonCoords,
                 polygonPointerCoord, previewRef, snapRef, nUndos>>
  /\ NotACommit
  /\ UnchangedProps

\* --------------------------------------------------------------- undo, redo
\* An undo that restores the entry it leaves: C37 must not survive it.
undoRestoringTheEntryLeft(h, i, s) ==
  IF i < 0 THEN [h |-> h, i |-> i, s |-> s]
  ELSE [h |-> h, i |-> i - 1, s |-> restoreState(h[i + 1])]

\* An undo without the test of the index: C39 must not survive it.
undoBelowTheFirst(h, i, s) ==
  [h |-> h, i |-> i - 1, s |-> restoreState(IF i - 1 >= 0 THEN h[i] ELSE <<>>)]

\* undo() on history h at index i with store s: the history, the index and
\* the store after it.
undoResult(h, i, s) ==
  IF i < 0 THEN [h |-> h, i |-> i, s |-> s]
  ELSE [h |-> h, i |-> i - 1, s |-> restoreState(IF i - 1 >= 0 THEN h[i] ELSE <<>>)]

\* redo() on history h at index i with store s.
redoResult(h, i, s) ==
  IF i >= Len(h) - 1 THEN [h |-> h, i |-> i, s |-> s]
  ELSE [h |-> h, i |-> i + 1, s |-> restoreState(h[i + 2])]

undo ==
  /\ LET r == undoResult(history, historyIndex, store)
     IN /\ historyIndex' = r.i
        /\ store' = r.s
        /\ IF historyIndex < 0
           THEN UNCHANGED <<pubCanUndo, pubCanRedo>>
           ELSE /\ pubCanUndo' = canUndoOf(r.h, r.i)
                /\ pubCanRedo' = canRedoOf(r.h, r.i)
  /\ UNCHANGED <<history, nSaves, isPainting, strokeCoords, strokeRef, isDrawingPolygon,
                 polygonCoords, polygonPointerCoord, previewRef, snapRef>>
  /\ NotACommit
  /\ UnchangedProps

redo ==
  /\ LET r == redoResult(history, historyIndex, store)
     IN /\ historyIndex' = r.i
        /\ store' = r.s
        /\ IF historyIndex >= Len(history) - 1
           THEN UNCHANGED <<pubCanUndo, pubCanRedo>>
           ELSE /\ pubCanUndo' = canUndoOf(r.h, r.i)
                /\ pubCanRedo' = canRedoOf(r.h, r.i)
  /\ UNCHANGED <<history, nSaves, isPainting, strokeCoords, strokeRef, isDrawingPolygon,
                 polygonCoords, polygonPointerCoord, previewRef, snapRef, nUndos>>
  /\ NotACommit
  /\ UnchangedProps

\* ------------------------------------------------------------ prop changes
setActiveTool(t) ==
  /\ t # activeTool
  /\ activeTool' = t
  /\ SetCtx(rerunPaintEffect(Ctx, activeTool, paintStyle, selectedClass, t, selectedClass))
  /\ UNCHANGED <<classes, paintStyle, selectedClass, jstsLoaded, clock, nUndos>>
  /\ UnchangedDocument
  /\ UnchangedEnv
  /\ UnchangedHistory
  /\ NotACommit

setPaintStyle(st) ==
  /\ st # paintStyle
  /\ paintStyle' = st
  /\ SetCtx(rerunPaintEffect(Ctx, activeTool, paintStyle, selectedClass, activeTool,
                             selectedClass))
  /\ UNCHANGED <<classes, activeTool, selectedClass, jstsLoaded, clock, nUndos>>
  /\ UnchangedDocument
  /\ UnchangedEnv
  /\ UnchangedHistory
  /\ LookChanged("style")

handleSelectClass(c) ==
  /\ c # selectedClass
  /\ \E k \in DOMAIN classes : classes[k] = c
  /\ selectedClass' = c
  /\ SetCtx(rerunPaintEffect(Ctx, activeTool, paintStyle, selectedClass, activeTool, c))
  /\ UNCHANGED <<classes, activeTool, paintStyle, jstsLoaded, clock, nUndos>>
  /\ UnchangedDocument
  /\ UnchangedEnv
  /\ UnchangedHistory
  /\ LookChanged("class")

\* setOpacity from the toolbar's slider: the App renders with the new opacity
\* and the paint effect, which names it in its dependency list, runs again.
setOpacity(o) ==
  /\ o # opacity
  /\ opacity' = o
  /\ SetCtx(rerunPaintEffect(Ctx, activeTool, paintStyle, selectedClass, activeTool,
                             selectedClass))
  /\ UNCHANGED <<classes, activeTool, paintStyle, selectedClass, jstsLoaded, clock, nUndos>>
  /\ UnchangedDocument
  /\ UNCHANGED <<unionThrowsOn, retryThrowsOn, geometries, nPasses, stepPx, measured, snappedTo,
                 classColor, readThrowsOn, isRestoringState, pending>>
  /\ UnchangedHistory
  /\ LookChanged("opacity")

\* A handleUpdateClass that patches the class object in place, so that the
\* paint effect sees the props it ran with: C38 must not survive it.
handleUpdateClassInPlace(c, color) ==
  /\ \E k \in DOMAIN classes : classes[k] = c
  /\ color # classColor[c]
  /\ classColor' = [classColor EXCEPT ![c] = color]
  /\ SetCtx(Ctx)
  /\ UNCHANGED <<classes, activeTool, paintStyle, selectedClass, jstsLoaded, clock, nUndos>>
  /\ UnchangedDocument
  /\ UNCHANGED <<unionThrowsOn, retryThrowsOn, geometries, nPasses, stepPx, measured, snappedTo,
                 opacity, readThrowsOn, isRestoringState, pending>>
  /\ UnchangedHistory
  /\ LookChanged("color")

\* handleUpdateClass(classId, { color }) (a rename goes the same way): the
\* class list is mapped to a new array with a new object for the class, the
\* App renders, selectedClass is a new object when the class is the selected
\* one, and the paint effect runs again.
handleUpdateClass(c, color) ==
  /\ \E k \in DOMAIN classes : classes[k] = c
  /\ color # classColor[c]
  /\ classColor' = [classColor EXCEPT ![c] = color]
  /\ SetCtx(rerunPaintEffect(Ctx, activeTool, paintStyle, selectedClass, activeTool,
                             selectedClass))
  /\ UNCHANGED <<classes, activeTool, paintStyle, selectedClass, jstsLoaded, clock, nUndos>>
  /\ UnchangedDocument
  /\ UNCHANGED <<unionThrowsOn, retryThrowsOn, geometries, nPasses, stepPx, measured, snappedTo,
                 opacity, readThrowsOn, isRestoringState, pending>>
  /\ UnchangedHistory
  /\ LookChanged("color")

\* Class ids are creation timestamps (Date.now()): here 1, 2, ... in creation
\* order, never reused; MaxClasses classes are created at most.
handleAddClass ==
  /\ clock < MaxClasses
  /\ LET id == clock + 1
     IN /\ classes' = Append(classes, id)
        /\ selectedClass' = id
        /\ clock' = id
        /\ SetCtx(rerunPaintEffect(Ctx, activeTool, paintStyle, selectedClass, activeTool, id))
  /\ UNCHANGED <<activeTool, paintStyle, jstsLoaded, nUndos>>
  /\ UnchangedDocument
  /\ UnchangedEnv
  /\ UnchangedHistory
  /\ NotACommit

\* --------------------------------------------------------- class deletion
\* The class-deletion effect's filter: the features that stay in the source.
withoutClasses(s, deleted) == SelectSeq(s, LAMBDA f : f.classId \notin deleted)

\* handleDeleteClass and the render it causes: the cleanup of the paint effect,
\* the class-deletion effect, the body of the paint effect.
handleDeleteClass(c) ==
  /\ \E k \in DOMAIN classes : classes[k] = c
  /\ LET newSel == IF selectedClass = c THEN NoClass ELSE selectedClass
         cleaned == paintCleanup(Ctx, activeTool, paintStyle, selectedClass)
         kept == withoutClasses(cleaned.store, {c})
     IN /\ classes' = SelectSeq(classes, LAMBDA x : x # c)
        /\ selectedClass' = newSel
        /\ SetCtx(paintBody([cleaned EXCEPT !.store = kept], activeTool, newSel))
        /\ IF Len(kept) < Len(cleaned.store) THEN saveState(kept) ELSE UnchangedHistory
  /\ UNCHANGED <<activeTool, paintStyle, jstsLoaded, clock, nUndos>>
  /\ UnchangedDocument
  /\ UnchangedEnv
  /\ NotACommit

\* ------------------------------------------------------------ new project
\* handleNew once the user has confirmed: clearAll() on the map, then the render
\* with no classes, no selection, the Cursor tool and no document.
handleNew ==
  /\ history' = << <<>> >>
  /\ historyIndex' = 0
  /\ pubCanUndo' = FALSE
  /\ pubCanRedo' = FALSE
  /\ classes' = <<>>
  /\ selectedClass' = NoClass
  /\ activeTool' = "cursor"
  /\ geoJsonData' = NoDocument
  /\ SetCtx(rerunPaintEffect([Ctx EXCEPT !.store = <<>>], activeTool, paintStyle,
                             selectedClass, "cursor", NoClass))
  /\ opacity' = "full"
  /\ UNCHANGED <<paintStyle, jstsLoaded, clock, geoJsonLoaded, loadPending, diffThrowsOn,
                 nSaves, nUndos>>
  /\ UNCHANGED <<unionThrowsOn, retryThrowsOn, geometries, nPasses, stepPx, measured, snappedTo,
                 classColor, readThrowsOn, isRestoringState, pending>>
  /\ NotACommit

\* ---------------------------------------------------------- document load
\* The documents that can be opened: the class list of the file's metadata
\* and its features.  Document 1 was saved by this program after freehand
\* strokes: two class-1 polygons, a back-and-forth class-1 stroke and a class-2
\* polygon drawn over the second one.
Documents ==
  << [classes |-> <<1, 2>>,
      features |-> << [geom |-> Polygon(RectRing(0, 0)), classId |-> 1],
                      [geom |-> Polygon(RectRing(2, 2)), classId |-> 1],
                      [geom |-> Polygon(<< <<0, 0>>, <<1, 0>>, <<0, 0>> >>), classId |-> 1],
                      [geom |-> Polygon(RectRing(2, 2)), classId |-> 2] >>] >>

SeqMax(s) == IF s = <<>> THEN 0 ELSE CHOOSE x \in {s[k] : k \in DOMAIN s} :
                                       \A k \in DOMAIN s : s[k] <= x

\* handleOpen once the user has picked document d, and the renders it causes:
\* the load effect (clear, addFeatures, the save timer), then, with the
\* restored classes, the class-deletion effect and the paint effect.
handleOpen(d) ==
  /\ d # geoJsonData
  /\ geoJsonData' = d
  /\ LET doc == Documents[d]
         cleaned == paintCleanup(Ctx, activeTool, paintStyle, selectedClass)
     IN IF geoJsonLoaded = d
        THEN /\ SetCtx(paintBody(cleaned, activeTool, selectedClass))
             /\ UNCHANGED <<classes, selectedClass, clock, geoJsonLoaded, loadPending>>
             /\ UnchangedHistory
        ELSE LET restored == IF Len(doc.classes) > 0 THEN doc.classes ELSE classes
                 deleted == {classes[k] : k \in DOMAIN classes}
                              \ {restored[k] : k \in DOMAIN restored}
                 loaded == Deserialize(doc.features)
                 kept == withoutClasses(loaded, deleted)
                 newSel == IF \E k \in DOMAIN restored : restored[k] = selectedClass
                           THEN selectedClass ELSE NoClass
             IN /\ geoJsonLoaded' = d
                /\ loadPending' = TRUE
                /\ classes' = restored
                /\ selectedClass' = newSel
                /\ clock' = IF SeqMax(restored) > clock THEN SeqMax(restored) ELSE clock
                /\ SetCtx(paintBody([cleaned EXCEPT !.store = kept], activeTool, newSel))
                /\ IF Len(kept) < Len(loaded) THEN saveState(kept) ELSE UnchangedHistory
  /\ UNCHANGED <<activeTool, paintStyle, jstsLoaded, diffThrowsOn, nUndos>>
  /\ UnchangedEnv
  /\ NotACommit

\* The load effect's timer fires: saveState(), and the render its
\* notifications cause re-runs the paint effect.
loadSaveTimer ==
  /\ loadPending
  /\ loadPending' = FALSE
  /\ LET c == rerunPaintEffect(Ctx, activeTool, paintStyle, selectedClass, activeTool,
                               selectedClass)
     IN /\ saveState(store)
        /\ SetCtx(c)
  /\ UNCHANGED <<classes, activeTool, paintStyle, selectedClass, jstsLoaded, clock,
                 geoJsonData, geoJsonLoaded, diffThrowsOn, nUndos>>
  /\ UnchangedEnv
  /\ NotACommit

\* ------------------------------------------------------------ specification
\* The state after the component has mounted.
Mounted ==
  /\ store = <<>>
  /\ history = << <<>> >>
  /\ historyIndex = 0
  /\ pubCanUndo = FALSE
  /\ pubCanRedo = FALSE
  /\ classes = <<>>
  /\ activeTool = "cursor"
  /\ paintStyle \in {"polygon", "freehand"}
  /\ selectedClass = NoClass
  /\ isPainting = FALSE
  /\ strokeCoords = <<>>
  /\ strokeRef = FALSE
  /\ isDrawingPolygon = FALSE
  /\ polygonCoords = <<>>
  /\ polygonPointerCoord = NoCoord
  /\ previewRef = FALSE
  /\ snapRef = FALSE
  /\ clock = 0
  /\ geoJsonData = NoDocument
  /\ geoJsonLoaded = NoDocument
  /\ loadPending = FALSE
  /\ geometries = <<>>
  /\ nPasses = 0
  /\ hung = FALSE
  /\ measured = [features |-> <<>>, classId |-> NoClass]
  /\ isRestoringState = FALSE
  /\ pending = <<>>
  /\ opacity = "full"
  /\ classColor = [c \in 1..MaxClasses |-> "first"]
  /\ snappedTo = 0
  /\ nSaves = 0
  /\ lastCommit = NoCommit
  /\ discarded = FALSE
  /\ lastKey = "none"
  /\ lastDrag = NoDrag
  /\ saveIgnored = FALSE
  /\ lastLook = "none"
  /\ nUndos = 0

\* The page has loaded JSTS, and its difference() never throws.
Init ==
  /\ Mounted
  /\ jstsLoaded = TRUE
  /\ diffThrowsOn = {}
  /\ unionThrowsOn = {}
  /\ retryThrowsOn = {}
  /\ stepPx = LatticePx
  /\ readThrowsOn = {}

\* The pointer gestures explored: the four corners of a run of cells, in
\* order, and a back-and-forth over one edge.
RectGesture(lo, hi) == << <<lo, 0>>, <<hi, 0>>, <<hi, 1>>, <<lo, 1>> >>
BackAndForth == << <<0, 0>>, <<1, 0>>, <<0, 0>> >>
Gestures ==
  {RectGesture(r[1], r[2]) : r \in {q \in (0..MaxX) \X (0..MaxX) : q[1] < q[2]}}
    \cup {BackAndForth}
GesturePrefix(coords) ==
  \E g \in Gestures : Len(coords) <= Len(g) /\ SubSeq(g, 1, Len(coords)) = coords


\* Lines left in the store by a stroke that lost its ref.
StrayLines(s) == Cardinality({i \in DOMAIN s : s[i].geom.type = "LineString" /\ s[i].ref = "none"})

\* A session is followed until it has saved MaxSaves (DeepSaves) states or has
\* left MaxStray stroke lines behind.
InSession == nSaves < MaxSaves /\ StrayLines(store) < MaxStray
InDeepSession == nSaves < DeepSaves

\* The drawing is finished (a whole gesture), or too short to be committed.
Finished(coords) == coords \in Gestures \/ Len(coords) < 3

Click ==
  \E p \in Lattice :
    /\ GesturePrefix(Append(polygonCoords, p))
         \/ (isDrawingPolygon /\ polygonCoords \in Gestures
                               /\ isCloseToFirstVertex(polygonCoords, p))
    /\ handleClick(p)

DblClick == Finished(polygonCoords) /\ handleDblClick

KeyDownEnter == Finished(polygonCoords) /\ handleKeyDownEnter

PointerUp == Finished(strokeCoords) /\ handlePointerUp

PolygonPointerMove ==
  \E p \in Lattice : GesturePrefix(Append(polygonCoords, p)) /\ handlePolygonPointerMove(p)

PointerDown ==
  \E p \in Lattice : GesturePrefix(<<p>>) /\ handlePointerDown(p)

PointerDrag ==
  \E p \in Lattice : GesturePrefix(Append(strokeCoords, p)) /\ handlePointerMove(p)

EraseClick == \E c \in 0..(MaxX - 1) : handleEraseClick(c)

Undo == undo /\ UNCHANGED nUndos

SetTool == \E t \in {"cursor", "paint", "erase"} \ {activeTool} : setActiveTool(t)

SetStyle == \E st \in {"polygon", "freehand"} : setPaintStyle(st)

SelectClass == \E c \in (1..MaxClasses) \ {selectedClass} : handleSelectClass(c)

AddClass == handleAddClass

\* Every interleaving of the events of both drawing modes.
Next ==
  \/ InSession /\ Click
  \/ InSession /\ PolygonPointerMove
  \/ InSession /\ DblClick
  \/ InSession /\ KeyDownEnter
  \/ InSession /\ handleKeyDownEscape
  \/ InSession /\ handleKeyDownBackspace
  \/ InSession /\ PointerDown
  \/ InSession /\ PointerDrag
  \/ InSession /\ PointerUp
  \/ InSession /\ EraseClick
  \/ InSession /\ Undo
  \/ InSession /\ redo
  \/ InSession /\ SetTool
  \/ InSession /\ SetStyle
  \/ InSession /\ SelectClass
  \/ InSession /\ AddClass

Spec == Init /\ [][Next]_vars

\* A longer session that only ever draws in click-to-vertex mode, and in which
\* undo and redo are used between polygons, not in the middle of one.
InitPoly == Init /\ paintStyle = "polygon"

NextPoly ==
  \/ InDeepSession /\ Click
  \/ InDeepSession /\ PolygonPointerMove
  \/ InDeepSession /\ DblClick
  \/ InDeepSession /\ KeyDownEnter
  \/ InDeepSession /\ handleKeyDownEscape
  \/ InDeepSession /\ handleKeyDownBackspace
  \/ InDeepSession /\ EraseClick
  \/ InDeepSession /\ ~isDrawingPolygon /\ Undo
  \/ InDeepSession /\ ~isDrawingPolygon /\ redo
  \/ InDeepSession /\ SetTool
  \/ InDeepSession /\ SelectClass
  \/ InDeepSession /\ AddClass

SpecPoly == InitPoly /\ [][NextPoly]_vars

\* The same events on a page where JSTS is not loaded.
InitDegraded ==
  /\ Mounted
  /\ jstsLoaded = FALSE
  /\ diffThrowsOn = {}
  /\ unionThrowsOn = {}
  /\ retryThrowsOn = {}
  /\ stepPx = LatticePx
  /\ readThrowsOn = {}

SpecDegraded == InitDegraded /\ [][Next]_vars

\* A session with the document-level commands: class deletion, New and Open,
\* next to click-to-vertex drawing, erasing, undo and redo.
InDocSession == nSaves < DocSaves

DeleteClass == \E c \in 1..MaxClasses : handleDeleteClass(c)

Open == \E d \in DOMAIN Documents : ~loadPending /\ handleOpen(d)

NextDoc ==
  \/ InDocSession /\ Click
  \/ InDocSession /\ KeyDownEnter
  \/ InDocSession /\ EraseClick
  \/ InDocSession /\ ~isDrawingPolygon /\ Undo
  \/ InDocSession /\ ~isDrawingPolygon /\ redo
  \/ InDocSession /\ SetTool
  \/ InDocSession /\ SelectClass
  \/ InDocSession /\ AddClass
  \/ InDocSession /\ DeleteClass
  \/ InDocSession /\ handleNew
  \/ InDocSession /\ Open
  \/ InDocSession /\ loadSaveTimer

SpecDoc == InitPoly /\ [][NextDoc]_vars

\* Click-to-vertex sessions on a page whose JSTS difference() throws on the
\* polygons that cover one given cell.
InitFault ==
  /\ Mounted
  /\ paintStyle = "polygon"
  /\ jstsLoaded = TRUE
  /\ diffThrowsOn \in {{c} : c \in 0..(MaxX - 1)}
  /\ unionThrowsOn = {}
  /\ retryThrowsOn = {}
  /\ stepPx = LatticePx
  /\ readThrowsOn = {}

InFaultSession == nSaves < FaultSaves

NextFault ==
  \/ InFaultSession /\ Click
  \/ InFaultSession /\ KeyDownEnter
  \/ InFaultSession /\ SetTool
  \/ InFaultSession /\ SelectClass
  \/ InFaultSession /\ AddClass
  \/ InFaultSession /\ Open
  \/ InFaultSession /\ loadSaveTimer

SpecFault == InitFault /\ [][NextFault]_vars

\* The cascaded union on its own.  The page's JSTS faults are drawn at the
\* start; the first step hands a list to the loop, every further step is one
\* pass of the while loop.
CellSets == (SUBSET (0..(MaxX - 1))) \ {{}}

\* The lists the merge can hand over: the new geometry, then one to
\* MaxMerge - 1 geometries that intersect or touch it.
MergeLists ==
  UNION {{gs \in [1..n -> CellSets] : \A k \in 2..n : Intersects(gs[1], gs[k])} :
           n \in 2..MaxMerge}

InitUnion ==
  /\ Mounted
  /\ paintStyle = "polygon"
  /\ jstsLoaded = TRUE
  /\ diffThrowsOn = {}
  /\ unionThrowsOn \in {{}} \cup {{c} : c \in 0..(MaxX - 1)}
  /\ retryThrowsOn \in {{}, unionThrowsOn}
  /\ stepPx = LatticePx
  /\ readThrowsOn = {}

\* Nothing of the drawing session changes while the merge is in its loop.
UnchangedSession ==
  /\ SetCtx(Ctx)
  /\ UnchangedHistory
  /\ UnchangedDocument
  /\ UNCHANGED <<classes, activeTool, paintStyle, selectedClass, jstsLoaded, clock, nUndos,
                 unionThrowsOn, retryThrowsOn, stepPx, measured, snappedTo,
                 opacity, classColor, readThrowsOn, isRestoringState, pending>>
  /\ NotACommit

\* let geometries = [...geometriesToMerge]
startUnion(gs) ==
  /\ geometries = <<>>
  /\ nPasses = 0
  /\ geometries' = gs
  /\ UNCHANGED nPasses
  /\ UnchangedSession

\* One pass of while (geometries.length > 1).
unionLoopPass ==
  /\ Len(geometries) > 1
  /\ nPasses < MaxPasses
  /\ geometries' = unionPass(geometries)
  /\ nPasses' = nPasses + 1
  /\ UnchangedSession

StartUnion == \E gs \in MergeLists : startUnion(gs)

NextUnion ==
  \/ StartUnion
  \/ unionLoopPass

SpecUnion == InitUnion /\ [][NextUnion]_vars

\* The loop is left as soon as it can be.
SpecUnionFair == SpecUnion /\ WF_vars(unionLoopPass)

\* A scripted session: one class, freehand, SeqCommits strokes around cells
\* that neither overlap nor touch, then undo() over and over, and after any
\* number of undo() calls one more stroke.
InitSeq == Init /\ paintStyle = "freehand"

SeqGesture(n) == RectGesture(2 * n, 2 * n + 1)

SeqAddClass == classes = <<>> /\ handleAddClass

SeqSetTool == classes # <<>> /\ activeTool = "cursor" /\ setActiveTool("paint")

SeqDown ==
  /\ \/ (nSaves < SeqCommits /\ nUndos = 0)
     \/ (nSaves = SeqCommits /\ nUndos > 0)
  /\ ~isPainting
  /\ handlePointerDown(SeqGesture(nSaves)[1])

SeqDrag ==
  /\ Len(strokeCoords) < 4
  /\ handlePointerMove(SeqGesture(nSaves)[Len(strokeCoords) + 1])

SeqUp == Len(strokeCoords) = 4 /\ handlePointerUp

SeqUndo ==
  /\ nSaves = SeqCommits
  /\ nUndos < maxHistorySize
  /\ undo
  /\ nUndos' = nUndos + 1

NextSeq == SeqAddClass \/ SeqSetTool \/ SeqDown \/ SeqDrag \/ SeqUp \/ SeqUndo

SpecSeq == InitSeq /\ [][NextSeq]_vars

\* A session of one class with the view zoomed out, so that neighbouring
\* lattice points are closer than the closing distance.  The fourth click of
\* a polygon may land anywhere.
MaxVerts == 4

InitZoom ==
  /\ Mounted
  /\ paintStyle = "polygon"
  /\ jstsLoaded = TRUE
  /\ diffThrowsOn = {}
  /\ unionThrowsOn = {}
  /\ retryThrowsOn = {}
  /\ stepPx = FinePx
  /\ readThrowsOn = {}

InZoomSession == nSaves < ZoomSaves

ZoomClick ==
  \E p \in Lattice :
    /\ \/ GesturePrefix(Append(polygonCoords, p))
       \/ Len(polygonCoords) = MaxVerts - 1
       \/ (isDrawingPolygon /\ Len(polygonCoords) = MaxVerts
                             /\ isCloseToFirstVertex(polygonCoords, p))
    /\ handleClick(p)

NextZoom ==
  \/ InZoomSession /\ ZoomClick
  \/ InZoomSession /\ PolygonPointerMove
  \/ InZoomSession /\ handleKeyDownEnter
  \/ InZoomSession /\ handleKeyDownEscape
  \/ InZoomSession /\ handleKeyDownBackspace
  \/ InZoomSession /\ SetTool
  \/ InZoomSession /\ SeqAddClass

SpecZoom == InitZoom /\ [][NextZoom]_vars

\* Freehand strokes of one class with the view zoomed out so far that a
\* lattice step is the minimum distance of updateStroke, or one pixel less.
\* A drag may go to any lattice point; a stroke is begun when none is in
\* progress and may be given up while it is too short to be committed.
InitStroke ==
  /\ Mounted
  /\ paintStyle = "freehand"
  /\ jstsLoaded = TRUE
  /\ diffThrowsOn = {}
  /\ unionThrowsOn = {}
  /\ retryThrowsOn = {}
  /\ stepPx \in {minDistancePixels - 1, minDistancePixels}
  /\ readThrowsOn = {}

StrokeDown == \E p \in Lattice : ~isPainting /\ handlePointerDown(p)

StrokeDrag == \E p \in Lattice : Len(strokeCoords) < MaxStroke /\ handlePointerMove(p)

StrokeUp == Len(strokeCoords) < 3 /\ handlePointerUp

NextStroke ==
  \/ SeqAddClass
  \/ SeqSetTool
  \/ StrokeDown
  \/ StrokeDrag
  \/ StrokeUp

SpecStroke == InitStroke /\ [][NextStroke]_vars

\* A click-to-vertex session of one class on a page whose JSTS throws from
\* union whenever an operand covers one given cell, at the first attempt
\* only or at the retry as well.  A handler that does not return blocks the
\* UI thread: no further event is handled.
InitUnionFault ==
  /\ Mounted
  /\ paintStyle = "polygon"
  /\ jstsLoaded = TRUE
  /\ diffThrowsOn = {}
  /\ unionThrowsOn \in {{c} : c \in 0..(MaxX - 1)}
  /\ retryThrowsOn \in {{}, unionThrowsOn}
  /\ stepPx = LatticePx
  /\ readThrowsOn = {}

InUnionSession == ~hung /\ nSaves < UnionSaves

NextUnionFault ==
  \/ InUnionSession /\ Click
  \/ InUnionSession /\ PolygonPointerMove
  \/ InUnionSession /\ KeyDownEnter
  \/ InUnionSession /\ handleKeyDownEscape
  \/ InUnionSession /\ SetTool
  \/ InUnionSession /\ SeqAddClass

SpecUnionFault == InitUnionFault /\ [][NextUnionFault]_vars

\* ------------------------------------------------ look of the drawing
\* Click-to-vertex sessions in which the opacity, the paint style, the
\* selection and the colour of a class change at any moment.
LookSaves == 2

SetOpacity == \E o \in {"full", "half"} : setOpacity(o)

UpdateClass == \E c \in 1..MaxClasses, color \in {"first", "second"} : handleUpdateClass(c, color)

InLookSession == nSaves < LookSaves

NextLook ==
  \/ InLookSession /\ Click
  \/ InLookSession /\ PolygonPointerMove
  \/ InLookSession /\ handleKeyDownEscape
  \/ InLookSession /\ SetTool
  \/ InLookSession /\ SetStyle
  \/ InLookSession /\ SelectClass
  \/ InLookSession /\ AddClass
  \/ InLookSession /\ SetOpacity
  \/ InLookSession /\ UpdateClass

SpecLook == InitPoly /\ [][NextLook]_vars

\* ------------------------------------------------- restore, step by step
\* undo() and redo() with restoreState unrolled: one step moves the index,
\* sets isRestoringStateRef and clears the source, every further step is one
\* iteration of the forEach over the entry, the last step clears the flag
\* and publishes canUndo / canRedo.  No handler runs in between (one
\* thread); a saveState call placed inside the restore shows the guard.
RestoreSaves == 2

\* Sessions on a page where readFeature throws on the items over one cell.
InitRestore ==
  /\ Mounted
  /\ paintStyle = "polygon"
  /\ jstsLoaded = TRUE
  /\ diffThrowsOn = {}
  /\ unionThrowsOn = {}
  /\ retryThrowsOn = {}
  /\ stepPx = LatticePx
  /\ readThrowsOn \in {{}} \cup {{c} : c \in 0..(MaxX - 1)}

\* What a step of a restore leaves alone.
UnchangedByRestore ==
  /\ UNCHANGED <<history, nSaves, isPainting, strokeCoords, strokeRef, isDrawingPolygon,
                 polygonCoords, polygonPointerCoord, previewRef, snapRef, nUndos>>
  /\ UNCHANGED <<classes, activeTool, paintStyle, selectedClass, jstsLoaded, clock,
                 unionThrowsOn, retryThrowsOn, geometries, nPasses, stepPx, measured,
                 snappedTo, opacity, classColor, readThrowsOn>>
  /\ UnchangedDocument
  /\ NotACommit

\* The entry the history index points at.
currentEntry == IF historyIndex >= 0 THEN history[historyIndex + 1] ELSE <<>>

\* undo() up to and including restoreState's source.clear().
undoStart ==
  /\ ~isRestoringState
  /\ historyIndex >= 0
  /\ historyIndex' = historyIndex - 1
  /\ isRestoringState' = TRUE
  /\ store' = <<>>
  /\ pending' = (IF historyIndex - 1 >= 0 THEN history[historyIndex] ELSE <<>>)
  /\ UNCHANGED <<pubCanUndo, pubCanRedo>>
  /\ UnchangedByRestore

\* redo() up to and including restoreState's source.clear().
redoStart ==
  /\ ~isRestoringState
  /\ historyIndex < Len(history) - 1
  /\ historyIndex' = historyIndex + 1
  /\ isRestoringState' = TRUE
  /\ store' = <<>>
  /\ pending' = history[historyIndex + 2]
  /\ UNCHANGED <<pubCanUndo, pubCanRedo>>
  /\ UnchangedByRestore

\* A forEach that gives up at the first item that throws: C33 must not survive it.
restoreItemAborting ==
  /\ isRestoringState
  /\ pending # <<>>
  /\ IF readFeatureThrows(Head(pending))
     THEN UNCHANGED store /\ pending' = <<>>
     ELSE /\ store' = store \o Deserialize(<<Head(pending)>>)
          /\ pending' = Tail(pending)
  /\ UNCHANGED <<historyIndex, isRestoringState, pubCanUndo, pubCanRedo>>
  /\ UnchangedByRestore

\* One iteration of the forEach: try { readFeature; addFeature } catch { warn }.
restoreItem ==
  /\ isRestoringState
  /\ pending # <<>>
  /\ IF readFeatureThrows(Head(pending))
     THEN UNCHANGED store
     ELSE store' = store \o Deserialize(<<Head(pending)>>)
  /\ pending' = Tail(pending)
  /\ UNCHANGED <<historyIndex, isRestoringState, pubCanUndo, pubCanRedo>>
  /\ UnchangedByRestore

\* The forEach is over: the flag is cleared, undo / redo notify the parent.
restoreReturn ==
  /\ isRestoringState
  /\ pending = <<>>
  /\ isRestoringState' = FALSE
  /\ pubCanUndo' = canUndoOf(history, historyIndex)
  /\ pubCanRedo' = canRedoOf(history, historyIndex)
  /\ UNCHANGED <<store, historyIndex, pending>>
  /\ UnchangedByRestore

\* A saveState call that arrives while the restore is in progress.
saveStateWhileRestoring ==
  /\ isRestoringState
  /\ saveState(store)
  /\ SetCtx(Ctx)
  /\ UNCHANGED nUndos
  /\ UnchangedProps
  /\ lastCommit' = NoCommit
  /\ discarded' = FALSE
  /\ lastKey' = "none"
  /\ lastDrag' = NoDrag
  /\ saveIgnored' = TRUE
  /\ lastLook' = "none"
  /\ UNCHANGED hung

InRestoreSession == ~isRestoringState /\ nSaves < RestoreSaves

NextRestore ==
  \/ InRestoreSession /\ Click
  \/ InRestoreSession /\ KeyDownEnter
  \/ InRestoreSession /\ handleKeyDownEscape
  \/ InRestoreSession /\ SetTool
  \/ InRestoreSession /\ SeqAddClass
  \/ undoStart
  \/ redoStart
  \/ restoreItem
  \/ restoreReturn
  \/ saveStateWhileRestoring

SpecRestore == InitRestore /\ [][NextRestore]_vars

\* The forEach goes on and restoreState returns.
SpecRestoreFair == SpecRestore /\ WF_vars(restoreItem) /\ WF_vars(restoreReturn)

\* ------------------------------------------------------- snap, measured
\* The decision of snapToBoundary in terms of what OpenLayers measures on
\* each feature of the source for the raw coordinate: whether the geometry
\* is a Polygon, whether it contains the coordinate (intersectsCoordinate)
\* and how far, in screen pixels, the closest point of its exterior ring is.
\* A coordinate on the ring is contained.
SnapDistances == {0, 9, 10, 34, 35}

MeasuredFeature ==
  {f \in [classId : {NoClass} \cup (1..MaxClasses), polygon : BOOLEAN,
          inside : BOOLEAN, distance : SnapDistances] :
     /\ f.distance = 0 => f.inside
     /\ ~f.polygon => (~f.inside /\ f.distance = 0)}

MeasuredLists == UNION {[1..n -> MeasuredFeature] : n \in 0..MaxMeasured}

\* existingFeatures of snapToBoundary: the positions that pass its filter.
existingFeatures(fs, classId) ==
  {i \in DOMAIN fs : /\ fs[i].classId # NoClass
                     /\ fs[i].classId # classId
                     /\ fs[i].polygon}

isInsideOtherClass(fs, classId) == \E i \in existingFeatures(fs, classId) : fs[i].inside

\* An isInsideOtherClass that always answers yes: C30 as amended must not
\* survive it.
toleranceAlwaysInside(fs, classId) == snapInsidePixels

toleranceOf(fs, classId) ==
  IF isInsideOtherClass(fs, classId) THEN snapInsidePixels ELSE snapOutsidePixels

\* The forEach over existingFeatures: the first feature, in source order,
\* among those whose ring is closest and closer than the tolerance; 0 if none.
closestBoundary(fs, classId) ==
  LET tol == toleranceOf(fs, classId)
      F[i \in 0..Len(fs)] ==
        IF i = 0 THEN [at |-> 0, closestDistance |-> tol]
        ELSE IF /\ i \in existingFeatures(fs, classId)
                /\ fs[i].distance < tol
                /\ (F[i - 1].at = 0 \/ fs[i].distance < F[i - 1].closestDistance)
             THEN [at |-> i, closestDistance |-> fs[i].distance]
             ELSE F[i - 1]
  IN F[Len(fs)].at

\* snapToBoundary, as the click and pointer-move handlers call it, on a
\* source measured as fs: what it decides, leaving the drawing aside.
snapMeasured(fs) ==
  /\ PolygonMode
  /\ measured' = [features |-> fs, classId |-> selectedClass]
  /\ snappedTo' = closestBoundary(fs, selectedClass)
  /\ SetCtx(Ctx)
  /\ UnchangedHistory
  /\ UnchangedDocument
  /\ UNCHANGED <<classes, activeTool, paintStyle, selectedClass, jstsLoaded, clock, nUndos,
                 unionThrowsOn, retryThrowsOn, stepPx, geometries, nPasses,
                 opacity, classColor, readThrowsOn, isRestoringState, pending>>
  /\ NotACommit

SnapMeasured == \E fs \in MeasuredLists : snapMeasured(fs)

NextSnap ==
  \/ SnapMeasured
  \/ SetTool
  \/ SelectClass
  \/ AddClass

SpecSnap == InitPoly /\ [][NextSnap]_vars

\* The store after the first n strokes of the scripted session.
StoreAfter(n) ==
  [k \in 1..n |-> Feature(Polygon(closeRing(SeqGesture(k - 1))), 1, FALSE, "none")]

\* ------------------------------------------------------------------ claims

\* C1: on a fresh document, after 60 draw-commits the history holds exactly 50
\* entries, and 50 undo() calls then leave the store in the state after the
\* 10th commit, not an empty store.
C1_FiftyUndosReachTenthCommit ==
  /\ nSaves = SeqCommits => Len(history) = maxHistorySize
  /\ (nSaves = SeqCommits /\ nUndos = maxHistorySize) =>
       (store # <<>> /\ store = StoreAfter(SeqCommits - maxHistorySize))

\* The scripted session has made all its commits and all its undo() calls.
C1_Witness == nSaves = SeqCommits /\ nUndos = maxHistorySize /\ Len(history) = maxHistorySize

\* C2: on a fresh document with one commit, the first undo restores zero
\* features and the second undo is a no-op: it changes neither the history
\* index, nor the store, nor the published canUndo and canRedo.
C2_SecondUndoIsNoOp ==
  [][/\ (nSaves = 1 /\ Len(history) = 2 /\ historyIndex = 1 /\ undo) => store' = <<>>
     /\ (nSaves = 1 /\ Len(history) = 2 /\ historyIndex = 0 /\ undo) =>
          UNCHANGED <<historyIndex, store, pubCanUndo, pubCanRedo>>]_vars

\* The features that only show a drawing in progress: the preview line, the
\* stroke line and the snap indicator.
LivePreview(f) == f.ref # "none"
Settled(s) == SelectSeq(s, LAMBDA f : ~LivePreview(f))

\* C3: at every reachable state the output of exportDocument() and every
\* snapshot saved by saveState contain no live-preview feature (no preview
\* line, no in-progress stroke line, no snap indicator).
C3_NoLivePreviewInExportOrSnapshot ==
  /\ exportGeoJSON(store) = exportGeoJSON(Settled(store))
  /\ \A k \in DOMAIN history : \A j \in DOMAIN history[k] : IsAreal(history[k][j].geom)

\* C4: switching the tool away from Paint, or losing the selected class, in the
\* middle of a freehand stroke or of a polygon discards the drawing in the same
\* step: the machine is idle, the store holds no partial line, preview or snap
\* indicator, nothing is committed and no history entry is written.
C4_AbortDiscardsDrawing ==
  [][(/\ PaintInstalled(activeTool, selectedClass)
      /\ isPainting \/ isDrawingPolygon
      /\ ~PaintInstalled(activeTool', selectedClass'))
     => /\ ~isPainting' /\ ~isDrawingPolygon'
        /\ store' = Settled(store)
        /\ UNCHANGED <<history, historyIndex>>]_vars

\* The stored painted regions: what a commit added, not a drawing in progress.
Painted(s) == {i \in DOMAIN s : IsAreal(s[i].geom) /\ ~LivePreview(s[i])}
PaintedOf(s, classId) == {i \in Painted(s) : s[i].classId = classId}

\* C5: in a session that only draws in click-to-vertex mode (commits, erases,
\* undo, redo), after every commit no two stored polygon features of different
\* classes overlap.
C5_NoCrossClassOverlap ==
  lastCommit # NoCommit =>
    \A i, j \in Painted(store) :
      store[i].classId # store[j].classId =>
        GeomCells(store[i].geom) \cap GeomCells(store[j].geom) = {}

\* C6: when the cross-class trim leaves an empty geometry the commit is
\* rejected: no feature with an empty geometry is ever added to the store.
C6_NoEmptyFeature ==
  \A i \in DOMAIN store : store[i].geom # EmptyPolygon

\* The features of the store that carry a class other than classId.
OfOtherClass(s, classId) ==
  SelectSeq(s, LAMBDA f : f.classId # NoClass /\ f.classId # classId)

\* C7: a draw-commit of class Y, in either drawing mode, never modifies or
\* removes a stored feature whose class is not Y.
C7_CommitKeepsOtherClasses ==
  [][lastCommit' # NoCommit =>
       OfOtherClass(store', lastCommit'.classId) = OfOtherClass(store, lastCommit'.classId)]_vars

\* A commit has just been made over or next to a region of another class.
C7_Witness ==
  /\ lastCommit # NoCommit
  /\ \E i \in Painted(store) :
       /\ store[i].classId # lastCommit.classId
       /\ Intersects(GeomCells(store[i].geom), RingCells(lastCommit.ring))
  /\ \E i \in Painted(store) : store[i].classId = lastCommit.classId

\* The polygon a commit of `ring` hands to the merge, given the store before it.
Handed(s, commit) ==
  IF commit.mode = "polygon"
  THEN trimPolygon(s, Polygon(commit.ring), commit.classId)
  ELSE Polygon(commit.ring)

\* C8: after every draw-commit of a polygon P of class C, all stored class-C
\* polygons that intersected or touched P are gone and replaced by exactly one
\* class-C feature whose geometry is the union of P with all of them, and the
\* other class-C polygons are unchanged.
C8_MergeReplacesTouched ==
  [][lastCommit' # NoCommit =>
       LET C == lastCommit'.classId
           P == GeomCells(Handed(store, lastCommit'))
           old == PaintedOf(store, C)
           hit == {i \in old : Intersects(GeomCells(store[i].geom), P)}
           union == P \cup UNION {GeomCells(store[i].geom) : i \in hit}
           kept == {store[i] : i \in old \ hit}
           now == PaintedOf(store', C)
       IN hit # {} =>
            /\ Cardinality({j \in now : GeomCells(store'[j].geom) = union}) = 1
            /\ \A j \in now : GeomCells(store'[j].geom) = union \/ store'[j] \in kept
            /\ \A f \in kept : \E j \in now : store'[j] = f]_vars

\* C9: committing the same polygon of the same class twice in a row leaves
\* exactly one feature of that class, with the area of a single polygon.
C9_SecondIdenticalCommitMerges ==
  [][(/\ lastCommit' # NoCommit
      /\ lastCommit'.mode = "freehand"
      /\ \E i \in DOMAIN store : store[i] = Feature(Polygon(lastCommit'.ring),
                                                     lastCommit'.classId, FALSE, "none")
      /\ Cardinality(PaintedOf(store, lastCommit'.classId)) = 1)
     => /\ Cardinality(PaintedOf(store', lastCommit'.classId)) = 1
        /\ \A j \in PaintedOf(store', lastCommit'.classId) :
             GeomCells(store'[j].geom) = RingCells(lastCommit'.ring)]_vars

\* C10: every committed polygon has a closed ring: its first vertex equals its
\* last, and it has at least 4 vertices.
C10_CommittedRingClosed ==
  lastCommit # NoCommit =>
    /\ lastCommit.ring[1] = lastCommit.ring[Len(lastCommit.ring)]
    /\ Len(lastCommit.ring) >= 4

\* The ids of the classes of the class list.
ClassIds == {classes[k] : k \in DOMAIN classes}

\* C11: in every reachable state (after any sequence of draw-commits, erases,
\* class deletions, undo and redo) every non-transient feature of the store has
\* a classId of a class that is in the class list: the features of a deleted
\* class never come back.
C11_FeaturesReferenceLiveClasses ==
  \A i \in DOMAIN store : ~store[i].transient => store[i].classId \in ClassIds

\* C12: deleting a class removes every stored feature whose classId is the
\* deleted id, leaves the features of all other classes unchanged, and
\* immediately appends a history snapshot that reflects the store after the
\* removal.
C12_DeleteRemovesAndSnapshots ==
  [][\A c \in ClassIds : handleDeleteClass(c) =>
       /\ \A i \in DOMAIN store' : store'[i].classId # c
       /\ OfOtherClass(Settled(store'), c) = OfOtherClass(Settled(store), c)
       /\ nSaves' = nSaves + 1
       /\ historyIndex' = Len(history') - 1
       /\ history'[Len(history')] = Serialize(store')]_vars

C14_HistoryBoundedOldestEvicted ==
  /\ [](Len(history) <= maxHistorySize)
  /\ [][(/\ nSaves' = nSaves + 1
          /\ Len(history) = maxHistorySize
          /\ historyIndex = Len(history) - 1)
         => /\ Len(history') = maxHistorySize
            /\ \A k \in 1..(maxHistorySize - 1) : history'[k] = history[k + 1]
            /\ history'[maxHistorySize] = Serialize(store')]_vars

\* The history is full and entries have been evicted from it.
C14_Witness ==
  /\ Len(history) = maxHistorySize
  /\ nSaves > maxHistorySize
  /\ history[1] # <<>>

\* C15: a saveState() issued after one or more undo() calls discards every
\* entry after the index it was issued at, so that a following redo() is a
\* no-op and the published canRedo is false; the entries up to that index are
\* kept unchanged when nothing is evicted.
C15_SaveCutsRedoBranch ==
  [][nSaves' = nSaves + 1 =>
       /\ historyIndex' >= Len(history') - 1
       /\ pubCanRedo' = FALSE
       /\ historyIndex + 2 <= maxHistorySize =>
            /\ Len(history') = historyIndex + 2
            /\ \A k \in 1..(historyIndex + 1) : history'[k] = history[k]]_vars

\* Two states were saved and the history holds two entries: the second save
\* came after an undo and replaced the entry of the first.
C15_Witness ==
  /\ nSaves = 2
  /\ Len(history) = 2
  /\ historyIndex = 1
  /\ ~pubCanRedo

\* C16: once a snapshot exists in the history the history index is never
\* negative; -1 occurs only before the first snapshot.
C16_IndexNonNegative ==
  Len(history) > 0 => historyIndex >= 0

\* C17: after every history mutation (saveState, undo, redo, clearAll) the
\* published canUndo is true exactly when an undo() would not be a no-op, and
\* the published canRedo exactly when a redo() would not be a no-op.
C17_PublishedFlagsExact ==
  [][(history' # history \/ historyIndex' # historyIndex) =>
       /\ pubCanUndo' = ~(historyIndex' < 0)
       /\ pubCanRedo' = ~(historyIndex' >= Len(history') - 1)]_vars

\* C18: after a document load (the load and its save) and after a new-project
\* command the history is exactly one entry at index 0, with no entry of the
\* document that was open before.
C18_LoadAndNewResetHistory ==
  [][(handleNew \/ loadSaveTimer) => (Len(history') = 1 /\ historyIndex' = 0)]_vars

\* C19: when JSTS is not loaded every valid draw-commit adds exactly one
\* feature holding the raw closed polygon, removes or alters no stored
\* feature, and still appends a history snapshot.
C19_DegradedCommitAddsRawPolygon ==
  [][(~jstsLoaded /\ lastCommit' # NoCommit) =>
       /\ Settled(store') =
            Append(Settled(store),
                   Feature(Polygon(lastCommit'.ring), lastCommit'.classId, FALSE, "none"))
       /\ nSaves' = nSaves + 1
       /\ historyIndex' = Len(history') - 1
       /\ history'[Len(history')] = Serialize(store')]_vars

\* Without JSTS a polygon has been committed onto or next to a polygon of its
\* own class, which a merge would have swallowed.
C19_Witness ==
  /\ ~jstsLoaded
  /\ lastCommit # NoCommit
  /\ \E i, j \in PaintedOf(store, lastCommit.classId) :
       /\ i < j
       /\ j = Len(store)
       /\ store[j].geom = Polygon(lastCommit.ring)
       /\ Intersects(GeomCells(store[i].geom), GeomCells(store[j].geom))

\* The cells covered by the features idxs of s.
CellsOf(s, idxs) == UNION {GeomCells(s[i].geom) : i \in idxs}

\* C20: if a difference operation throws while a click-to-vertex commit is
\* trimmed against one other-class polygon, that step contributes no change:
\* the geometry computed so far is kept, the remaining other-class polygons
\* are still subtracted, and the commit completes by adding a feature and a
\* history snapshot.
C20_FailedDifferenceIsSkipped ==
  [][(lastCommit' # NoCommit /\ lastCommit'.mode = "polygon" /\ jstsLoaded) =>
       LET C == lastCommit'.classId
           P == RingCells(lastCommit'.ring)
           others == OtherClassPolygons(store, C)
           throwing == {i \in others : differenceThrows(GeomCells(store[i].geom))}
           threw == /\ ~JstsReadThrows(Polygon(lastCommit'.ring))
                    /\ \E i \in throwing : /\ ~JstsReadThrows(store[i].geom)
                                            /\ Intersects(P, GeomCells(store[i].geom))
           expected == P \ CellsOf(store, others \ throwing)
       IN threw =>
            /\ CellsOf(store', PaintedOf(store', C)) =
                 CellsOf(store, PaintedOf(store, C)) \cup expected
            /\ PaintedOf(store', C) # {}
            /\ nSaves' = nSaves + 1
            /\ history'[Len(history')] = Serialize(store')]_vars

\* C21: the cascaded pairwise union always terminates, for every list of
\* geometries and also when the union of a pair throws on both attempts: each
\* pass of the loop strictly reduces the number of geometries until one
\* remains.
C21_EachPassReduces ==
  [][unionLoopPass => Len(geometries') < Len(geometries)]_vars

\* Every polygon of s can be read by JSTS.
Readable(s) == \A i \in DOMAIN s : IsPolygon(s[i].geom) => ~JstsReadThrows(s[i].geom)

\* C22: in a click-to-vertex commit the same-class union is made first and the
\* cross-class trim is applied to the merged geometry: the feature finally
\* stored covers the union of the new polygon with the same-class polygons it
\* intersects or touches, minus every other-class polygon that intersects or
\* touches that union.
C22_UnionThenTrim ==
  [][(/\ lastCommit' # NoCommit
      /\ lastCommit'.mode = "polygon"
      /\ jstsLoaded
      /\ Readable(store)
      /\ ~JstsReadThrows(Polygon(lastCommit'.ring)))
     => LET C == lastCommit'.classId
            P == RingCells(lastCommit'.ring)
            old == PaintedOf(store, C)
            hit == {i \in old : Intersects(P, GeomCells(store[i].geom))}
            union == P \cup CellsOf(store, hit)
            others == {i \in OtherClassPolygons(store, C) :
                         Intersects(union, GeomCells(store[i].geom))}
            expected == union \ CellsOf(store, others)
        IN expected # {} =>
             \E j \in PaintedOf(store', C) : GeomCells(store'[j].geom) = expected]_vars

\* The features of s that do not carry the __transient property, as
\* geometry and class.
NonTransient(s) ==
  LET kept == SelectSeq(s, LAMBDA f : ~f.transient)
  IN [k \in DOMAIN kept |-> [geom |-> kept[k].geom, classId |-> kept[k].classId]]

\* C23: after every saveState() the history index is the last index of the
\* history and the entry there is the serialization of the non-transient
\* features of the store, also when the cap of 50 evicted the oldest entry
\* and when saveState() was called at index -1.
C23_SaveLeavesIndexAtLastEntry ==
  [][nSaves' = nSaves + 1 =>
       /\ historyIndex' = Len(history') - 1
       /\ history'[historyIndex' + 1] = NonTransient(store')]_vars

\* The scripted session has evicted entries, has gone back to index -1 and
\* has saved a stroke from there.
C23_Witness ==
  /\ nSaves = SeqCommits + 1
  /\ nUndos = maxHistorySize
  /\ historyIndex = 0
  /\ Len(history) = 1
  /\ Len(store) = 1

\* C24: after an undo() or redo() that is not a no-op the non-transient
\* features of the store are those of the history entry at the new index, or
\* none when the new index is -1; undo() is a no-op exactly when the index is
\* below 0, redo() exactly when the index is the last index.
C24_UndoRedoRestoreEntry ==
  [][/\ undo =>
          IF historyIndex < 0 THEN UNCHANGED <<store, history, historyIndex>>
          ELSE /\ historyIndex' = historyIndex - 1
               /\ history' = history
               /\ NonTransient(store') =
                    (IF historyIndex' = -1 THEN <<>> ELSE history[historyIndex' + 1])
     /\ redo =>
          IF historyIndex = Len(history) - 1 THEN UNCHANGED <<store, history, historyIndex>>
          ELSE /\ historyIndex' = historyIndex + 1
               /\ history' = history
               /\ NonTransient(store') = history[historyIndex' + 1]]_vars

\* Two polygons were committed and undo() has gone one entry back: the store
\* holds the features of the first commit, the entry of the second is kept.
C24_Witness ==
  /\ nSaves = 2
  /\ Len(history) = 3
  /\ historyIndex = 1
  /\ history[2] # <<>>
  /\ history[3] # history[2]
  /\ NonTransient(store) = history[2]

\* C25: a commit attempt with fewer than 3 vertices or points (Enter or
\* double-click in click-to-vertex mode, pointer-up in freehand mode) is
\* discarded: no feature is created, no snapshot is taken, and the drawing in
\* progress is dropped, which leaves the machine idle with no preview and no
\* partial line in the store.
C25_Original ==
  /\ [](discarded =>
          /\ ~isDrawingPolygon /\ ~isPainting
          /\ polygonCoords = <<>> /\ strokeCoords = <<>>
          /\ \A i \in DOMAIN store : store[i].ref \notin {"preview", "stroke"})
  /\ [][discarded' =>
          /\ UNCHANGED <<history, historyIndex>>
          /\ Settled(store') = Settled(store)]_vars

\* C25 as amended: a commit attempt with fewer than 3 vertices or points
\* creates no feature and takes no snapshot; in freehand mode the partial line
\* is removed and the machine is idle; in click-to-vertex mode the attempt is
\* ignored and the polygon stays in progress with the vertices it had.
C25_ShortCommitIsIgnored ==
  /\ []((discarded /\ paintStyle = "freehand") =>
          /\ ~isPainting
          /\ strokeCoords = <<>>
          /\ ~strokeRef
          /\ \A i \in DOMAIN store : store[i].ref # "stroke")
  /\ []((discarded /\ paintStyle = "polygon") =>
          /\ isDrawingPolygon
          /\ Len(polygonCoords) \in 1..2
          /\ polygonPointerCoord # NoCoord)
  /\ [][discarded' =>
          /\ UNCHANGED <<history, historyIndex>>
          /\ Settled(store') = Settled(store)]_vars

\* Enter or a double-click has just been refused on a polygon of two
\* vertices, next to a feature committed before.
C25_Witness ==
  /\ discarded
  /\ paintStyle = "polygon"
  /\ Len(polygonCoords) = 2
  /\ previewRef
  /\ \E i \in DOMAIN store : store[i].ref = "preview"
  /\ Painted(store) # {}

\* C26: a click whose snapped coordinate is within closePixels screen pixels
\* of the first vertex of a drawing of at least 3 vertices commits the
\* polygon and appends nothing; every other click appends exactly the
\* snapped coordinate and leaves the machine drawing.
C26_ClickClosesOrAppends ==
  [][\A p \in Lattice :
       handleClick(p) =>
         IF /\ isDrawingPolygon
            /\ Len(polygonCoords) >= 3
            /\ PixelDistSq(polygonCoords[1], p) <= 10 * 10
         THEN /\ lastCommit' # NoCommit
              /\ lastCommit'.ring = closeRing(polygonCoords)
              /\ ~isDrawingPolygon'
              /\ polygonCoords' = <<>>
              /\ nSaves' = nSaves + 1
         ELSE /\ polygonCoords' = Append(polygonCoords, p)
              /\ isDrawingPolygon'
              /\ lastCommit' = NoCommit
              /\ nSaves' = nSaves]_vars

\* A click at a neighbouring lattice point of the first vertex, not on it, has
\* closed a polygon.
C26_Witness ==
  /\ lastCommit # NoCommit
  /\ lastCommit.via = "click"
  /\ stepPx = FinePx
  /\ ~isDrawingPolygon

\* C27: Escape while drawing discards every vertex, removes the preview
\* feature and the snap indicator and leaves the machine idle; the other
\* features of the store and the history are left as they were, by Escape
\* and by every step of the drawing before it.
C27_EscapeCancels ==
  /\ [][(handleKeyDownEscape /\ isDrawingPolygon) =>
         /\ ~isDrawingPolygon'
         /\ polygonCoords' = <<>>
         /\ polygonPointerCoord' = NoCoord
         /\ ~previewRef' /\ ~snapRef'
         /\ store' = Settled(store)
         /\ history' = history
         /\ historyIndex' = historyIndex]_vars
  /\ [][(\E p \in Lattice : (handleClick(p) /\ lastCommit' = NoCommit)
                               \/ handlePolygonPointerMove(p)) =>
         /\ Settled(store') = Settled(store)
         /\ history' = history
         /\ historyIndex' = historyIndex]_vars

\* Escape has cancelled a drawing next to a committed polygon.
C27_Witness ==
  /\ lastKey = "Escape"
  /\ ~isDrawingPolygon
  /\ nSaves > 0
  /\ \E i \in DOMAIN store : IsPolygon(store[i].geom)

\* C28: Backspace while drawing removes the last vertex and keeps the others
\* in order, and cancels the drawing when none remains; Backspace while idle
\* changes nothing; no Backspace commits a feature or adds a history entry.
C28_BackspaceRemovesLastVertex ==
  [][handleKeyDownBackspace =>
       /\ IF ~isDrawingPolygon THEN UNCHANGED vars
          ELSE IF Len(polygonCoords) > 1
          THEN /\ polygonCoords' = SubSeq(polygonCoords, 1, Len(polygonCoords) - 1)
               /\ isDrawingPolygon'
          ELSE /\ polygonCoords' = <<>>
               /\ ~isDrawingPolygon'
               /\ ~previewRef'
               /\ store' = Settled(store)
       /\ Settled(store') = Settled(store)
       /\ history' = history
       /\ historyIndex' = historyIndex
       /\ nSaves' = nSaves
       /\ lastCommit' = NoCommit]_vars

\* Backspace has taken the last vertex off a drawing that keeps two or more.
C28_Witness ==
  /\ lastKey = "Backspace"
  /\ isDrawingPolygon
  /\ Len(polygonCoords) >= 2

\* The merge of `polygon` into s reaches a union that throws at both attempts.
UnionFails(s, polygon, classId) ==
  LET existing == SameClassPolygons(s, classId)
      newCells == GeomCells(polygon)
      touched == {i \in existing : Intersects(newCells, GeomCells(s[i].geom))}
      gs == geometriesToMerge(s, newCells, touched)
  IN /\ jstsLoaded
     /\ ~JstsReadThrows(polygon)
     /\ \A i \in existing : ~JstsReadThrows(s[i].geom)
     /\ touched # {}
     /\ \E k \in DOMAIN gs : /\ gs[k] \cap unionThrowsOn # {}
                              /\ gs[k] \cap retryThrowsOn # {}

\* C29: when the same-class union of a commit throws, no feature is removed
\* from the store, the new polygon is added as a feature of its own, and a
\* history snapshot follows.
C29_FailedUnionAddsUnmerged ==
  [][LET polygon == trimPolygon(store, Polygon(closeRing(polygonCoords)), selectedClass)
     IN (/\ handleKeyDownEnter
         /\ Len(polygonCoords) >= 3
         /\ UnionFails(WithoutRef(store, "preview"), polygon, selectedClass)) =>
          /\ \A i \in DOMAIN store :
                store[i].ref = "none" => \E j \in DOMAIN store' : store'[j] = store[i]
          /\ \E j \in DOMAIN store' :
                /\ store'[j].geom = polygon
                /\ store'[j].classId = selectedClass
                /\ \A i \in DOMAIN store : store[i] # store'[j]
          /\ nSaves' = nSaves + 1
          /\ history'[historyIndex'] = Serialize(store')]_vars

MeasuredOthers ==
  {i \in DOMAIN measured.features :
     /\ measured.features[i].polygon
     /\ measured.features[i].classId \notin {NoClass, measured.classId}}

SnapIndicators(s) == {i \in DOMAIN s : s[i].geom.type = "Point"}

\* C31: the store never holds more than one snap indicator; it holds none
\* right after a click (a vertex placed or a polygon committed), right after
\* an Escape, and whenever the click-to-vertex machine is idle.
C31_OneSnapIndicatorNoneWhenIdle ==
  /\ [](Cardinality(SnapIndicators(store)) <= 1)
  /\ [](~isDrawingPolygon => SnapIndicators(store) = {})
  /\ [][((\E p \in Lattice : handleClick(p)) \/ handleKeyDownEscape) =>
          (SnapIndicators(store') = {} /\ ~snapRef')]_vars

\* A click has placed a vertex on the ring of a polygon of another class, where
\* the pointer had been snapped: the indicator is gone.
C31_Witness ==
  /\ isDrawingPolygon
  /\ polygonCoords # <<>>
  /\ polygonPointerCoord = polygonCoords[Len(polygonCoords)]
  /\ SnapIndicators(store) = {}
  /\ \E i \in SnapCandidates(store, selectedClass) :
        /\ Len(store[i].geom.rings) > 0
        /\ RingWithin(store[i].geom.rings[1], polygonPointerCoord, snapOutsidePixels)

\* C32: a drag coordinate is appended to the stroke if and only if the stroke
\* is empty or the coordinate is more than 3 screen pixels away from the last
\* appended one; a coordinate that is not appended leaves the stroke as it
\* was; the coordinate of the pointer-down is always the first of its stroke.
C32_Original ==
  /\ [](lastDrag # NoDrag =>
          LET coords == lastDrag.coords
              far == coords = <<>> \/ PixelDistSq(coords[Len(coords)], lastDrag.p) > 3 * 3
          IN strokeCoords = (IF far THEN Append(coords, lastDrag.p) ELSE coords))
  /\ [][\A p \in Lattice : handlePointerDown(p) => strokeCoords' = <<p>>]_vars

\* C32 as amended: a drag coordinate is appended if and only if the stroke is
\* empty or the coordinate is at least 3 screen pixels away from the last
\* appended one; the coordinate of the pointer-down is always the first of
\* its stroke.
C32_AppendedFromMinDistance ==
  /\ [](lastDrag # NoDrag =>
          LET coords == lastDrag.coords
              far == coords = <<>> \/ PixelDistSq(coords[Len(coords)], lastDrag.p) >= 3 * 3
          IN strokeCoords = (IF far THEN Append(coords, lastDrag.p) ELSE coords))
  /\ [][\A p \in Lattice : handlePointerDown(p) => strokeCoords' = <<p>>]_vars

\* A drag to a point exactly 3 pixels from the last one has been appended, on
\* a stroke that had dropped nothing.
C32_Witness ==
  /\ lastDrag # NoDrag
  /\ lastDrag.coords # <<>>
  /\ PixelDistSq(lastDrag.coords[Len(lastDrag.coords)], lastDrag.p) = 3 * 3
  /\ strokeCoords = Append(lastDrag.coords, lastDrag.p)


\* C33: restoreState(entry) clears the source and then adds back the
\* well-formed items of the entry in their order, skipping every item whose
\* readFeature throws: when it returns the source holds exactly the
\* well-formed items of the entry and isRestoringStateRef is false, and
\* every restore that was started does return.
C33_RestoreKeepsTheWellFormedItems ==
  /\ [][(undoStart \/ redoStart) => (store' = <<>> /\ isRestoringState')]_vars
  /\ [](isRestoringState =>
          Serialize(store) \o SelectSeq(pending, LAMBDA item : ~readFeatureThrows(item))
            = SelectSeq(currentEntry, LAMBDA item : ~readFeatureThrows(item)))
  /\ [][restoreReturn =>
          /\ Serialize(store') = SelectSeq(currentEntry, LAMBDA item : ~readFeatureThrows(item))
          /\ \A j \in DOMAIN store' : ~store'[j].transient /\ store'[j].ref = "none"
          /\ ~isRestoringState']_vars
  /\ (isRestoringState ~> ~isRestoringState)

\* A restore is at the end of an entry of which it skipped an item and kept
\* another.
C33_Witness ==
  /\ isRestoringState
  /\ pending = <<>>
  /\ store # <<>>
  /\ Len(store) < Len(currentEntry)


\* C34: while a polygon is being drawn and has at least one vertex, the
\* feature that polygonPreviewFeatureRef points at is a member of the source,
\* also after an undo, a redo, a file load or a class deletion in the middle
\* of the drawing.
C34_PreviewIsInTheSource ==
  (isDrawingPolygon /\ Len(polygonCoords) >= 1) =>
     /\ previewRef
     /\ \E i \in DOMAIN store : store[i].ref = "preview"


\* C34 for the undo and redo steps after which the parent is told nothing
\* new (canUndo and canRedo as published before), so that nothing re-renders
\* and the paint effect is not run again: the drawing still has its preview
\* in the source if it had it before.
C34_AfterQuietUndoRedo ==
  [][(/\ isDrawingPolygon /\ Len(polygonCoords) >= 1
      /\ previewRef /\ \E i \in DOMAIN store : store[i].ref = "preview"
      /\ historyIndex' # historyIndex /\ history' = history
      /\ pubCanUndo' = pubCanUndo /\ pubCanRedo' = pubCanRedo)
     => (previewRef' /\ \E i \in DOMAIN store' : store'[i].ref = "preview")]_vars


\* The freehand lines of the source: LineString features other than the
\* polygon preview.
FreehandLines(s) == {i \in DOMAIN s : s[i].geom.type = "LineString" /\ s[i].ref # "preview"}

\* C35: the source never holds more than one in-progress freehand line, and
\* none when no stroke is in progress; also after a pointer-down during a
\* stroke and after the paint handlers were installed again in the middle of
\* a stroke.
C35_AtMostOneFreehandLine ==
  /\ Cardinality(FreehandLines(store)) <= 1
  /\ ~isPainting => FreehandLines(store) = {}


\* C36: whenever a file is opened, the source afterwards holds exactly the
\* features of that file, for every sequence of open and new-project
\* commands, the same file opened again after a new-project reset included.
C36_OpenShowsTheFile ==
  [][(geoJsonData' # geoJsonData /\ geoJsonData' # NoDocument) =>
       [j \in DOMAIN store' |-> [geom |-> store'[j].geom, classId |-> store'[j].classId]]
         = Documents[geoJsonData'].features]_vars


\* What the source shows: geometry and class of every feature, in order.
Content(s) == [j \in DOMAIN s |-> [geom |-> s[j].geom, classId |-> s[j].classId]]

\* C37: in a state whose index is at least 0 and whose source equals the
\* current entry, undo() followed by redo() leaves the source, the index and
\* the history as they were; so does redo() followed by undo() when the
\* index is not the last one.
C37_UndoRedoRoundTrip ==
  (historyIndex >= 0 /\ Content(store) = history[historyIndex + 1]) =>
    /\ LET u == undoResult(history, historyIndex, store)
           r == redoResult(u.h, u.i, u.s)
       IN /\ Content(r.s) = Content(store)
          /\ r.i = historyIndex
          /\ r.h = history
    /\ historyIndex < Len(history) - 1 =>
         LET r == redoResult(history, historyIndex, store)
             u == undoResult(r.h, r.i, r.s)
         IN /\ Content(u.s) = Content(store)
            /\ u.i = historyIndex
            /\ u.h = history

\* The source shows the entry of an index that is neither the first nor the
\* last one, and the entries on both sides differ from it.
C37_Witness ==
  /\ historyIndex >= 1
  /\ historyIndex < Len(history) - 1
  /\ Content(store) = history[historyIndex + 1]
  /\ history[historyIndex] # history[historyIndex + 1]
  /\ history[historyIndex + 2] # history[historyIndex + 1]


\* C38: a polygon drawing in progress is discarded exactly as by Escape
\* (vertices dropped, preview and snap indicator removed, nothing committed,
\* no history entry) by every change of the opacity, of the paint style, of
\* the selected class and of the colour or name of the selected class.
C38_LookChangeDiscardsTheDrawing ==
  [][(/\ isDrawingPolygon
      /\ \/ opacity' # opacity
         \/ paintStyle' # paintStyle
         \/ selectedClass' # selectedClass
         \/ classColor'[selectedClass] # classColor[selectedClass])
     => /\ ~isDrawingPolygon'
        /\ polygonCoords' = <<>>
        /\ polygonPointerCoord' = NoCoord
        /\ ~previewRef' /\ ~snapRef'
        /\ store' = Settled(store)
        /\ store' = cancelPolygon(Ctx).store
        /\ lastCommit' = NoCommit
        /\ history' = history
        /\ historyIndex' = historyIndex
        /\ nSaves' = nSaves]_vars

\* A change of the colour of a class has fallen into a drawing next to a
\* committed polygon, and the drawing is gone.
C38_Witness ==
  /\ lastLook = "color"
  /\ ~isDrawingPolygon
  /\ polygonCoords = <<>>
  /\ \E i \in DOMAIN store : IsPolygon(store[i].geom)


\* C39: in every reachable state the history index is at least -1 and at
\* most the number of history entries minus 1, so that undo and redo read
\* only entries the history holds.
C39_IndexWithinTheHistory ==
  /\ historyIndex >= -1
  /\ historyIndex <= Len(history) - 1

\* Undo has taken the index below the first entry of a history of several
\* entries.
C39_Witness ==
  /\ historyIndex = -1
  /\ Len(history) >= 2


\* C40: undo and redo, as single steps and unrolled into the steps of their
\* restore, never add, remove or change a history entry, and a saveState call
\* that arrives while a restore is in progress returns without touching the
\* history, the index or what was published.
C40_RestoreLeavesTheHistory ==
  /\ [][(undo \/ redo \/ undoStart \/ redoStart \/ restoreItem \/ restoreReturn) =>
          /\ history' = history
          /\ nSaves' = nSaves]_vars
  /\ [][isRestoringState => history' = history /\ historyIndex' = historyIndex]_vars
  /\ [][saveStateWhileRestoring =>
          UNCHANGED <<history, historyIndex, pubCanUndo, pubCanRedo, nSaves, store>>]_vars

\* A saveState call has just returned at its guard in the middle of the
\* restore of an entry that is not the only one.
C40_Witness ==
  /\ saveIgnored
  /\ isRestoringState
  /\ pending # <<>>
  /\ Len(history) >= 2

====
